---- MODULE Spec2Model ----
(***************************************************************************)
(* State-machine model of the tau2-bench domain toolkits (medicine, bank,  *)
(* travel, e-commerce, restaurant, basketball, movie) and of the green     *)
(* agent's evaluation loop (ask_agent_to_solve).                           *)
(*                                                                         *)
(* Every toolkit method is a pure operator db, args -> [db, outcome, err]  *)
(* that follows the statements of the method in order, so that a raise     *)
(* placed after a mutation returns the partly mutated database.  outcome   *)
(* is "ok" or the name of the Python exception class.  Money is counted in *)
(* whole minor units, on which round(x, 2) is the identity.                *)
(*                                                                         *)
(* Each domain has its own specification (SpecMed, SpecBank, ...); the     *)
(* variables of the other domains keep their initial value.                *)
(***************************************************************************)
EXTENDS Integers, Sequences, FiniteSets, TLC

VARIABLES med, bank, travel, shop, rest, bball, movie, rail, orch, school, envs, call

vars == <<med, bank, travel, shop, rest, bball, movie, rail, orch, school, envs, call>>

(***************************************************************************)
(* Bounds of the model                                                     *)
(***************************************************************************)
MaxFills == 1
MaxLedger == 4
MaxItems == 2
MaxReversals == 1
MaxTx == 2

\* largest payment_history of a travel booking
MaxEntries == 4

\* largest number of bookings of one traveler
MaxBookings == 2

\* largest number of tips on a restaurant ticket
MaxTips == 1

\* largest scoring_history of a basketball game
MaxEvents == 2

\* turn budget of the environment
MaxTurns == 3

(***************************************************************************)
(* Generic helpers                                                         *)
(***************************************************************************)
SeqsUpTo(S, n) == UNION {[1..k -> S] : k \in 0..n}

RECURSIVE SumSeq(_, _)
SumSeq(s, f) == IF s = <<>> THEN 0 ELSE s[1][f] + SumSeq(Tail(s), f)

Max(a, b) == IF a >= b THEN a ELSE b

Abs(a) == IF a >= 0 THEN a ELSE -a

\* result of a tool call: the database it leaves, how it ended and, where the
\* model follows the returned value, that value
Ok(db) == [db |-> db, outcome |-> "ok", err |-> "", ret |-> <<>>]

OkRet(db, ret) == [db |-> db, outcome |-> "ok", err |-> "", ret |-> ret]

Raise(db, kind, msg) == [db |-> db, outcome |-> kind, err |-> msg, ret |-> <<>>]

NoCall == [tool |-> "none", cls |-> "none", target |-> "", outcome |-> "ok", ret |-> <<>>]

\* the last tool call: its name, capability class, target entity, outcome and
\* returned value
Called(tool, cls, target, r) ==
  [tool |-> tool, cls |-> cls, target |-> target, outcome |-> r.outcome, ret |-> r.ret]

(***************************************************************************)
(* Medicine domain: src/tau2/domains/medicine/tools.py                     *)
(***************************************************************************)
RxIds == {"RX1", "RX9"}

PrescriptionStatus == {"active", "filled", "on-hold", "expired", "canceled", "transferred"}

MedPaymentIds == {"pm1", "pmX"}

MedInitDB ==
  [prescriptions |->
     [p \in {"RX1"} |->
        [status |-> "active",
         pharmacy |-> "PH1",
         medication_orders |-> <<[medication_id |-> "M1", refills_remaining |-> 1]>>,
         dispenses |-> <<>>,
         payment_history |-> <<>>]],
   payment_methods |-> {"pm1"},
   medications |-> [m \in {"M1"} |-> [l \in {"L1"} |-> 1]]]

\* DispensedItem values offered to fill_prescription
DispensedItems ==
  { [medication_id |-> "M1", lot_number |-> "L1", quantity_dispensed |-> 1, price |-> 5],
    [medication_id |-> "M1", lot_number |-> "LX", quantity_dispensed |-> 1, price |-> 5],
    [medication_id |-> "MX", lot_number |-> "L1", quantity_dispensed |-> 1, price |-> 5] }

DispenseInsurances ==
  { [billed_amount |-> 0, patient_copay |-> 0], [billed_amount |-> 5, patient_copay |-> 0] }

PharmacyPayments ==
  { [payment_id |-> p, amount |-> 5] : p \in MedPaymentIds }

_get_new_fill_id(rx) == Len(rx.dispenses) + 1

OrderIds(rx) == { rx.medication_orders[i].medication_id : i \in DOMAIN rx.medication_orders }

ItemIds(items) == { items[i].medication_id : i \in DOMAIN items }

\* tools.py 414-424: the inventory loop; the lots of the items before the
\* failing one stay decremented
RECURSIVE fill_inventory(_, _)
fill_inventory(meds, items) ==
  IF items = <<>> THEN [meds |-> meds, err |-> ""]
  ELSE LET it == items[1] IN
       IF it.medication_id \notin DOMAIN meds
         THEN [meds |-> meds, err |-> "Medication not found"]
       ELSE IF it.lot_number \notin DOMAIN meds[it.medication_id]
         THEN [meds |-> meds, err |-> "Lot number not found"]
       ELSE IF meds[it.medication_id][it.lot_number] < it.quantity_dispensed
         THEN [meds |-> meds, err |-> "Insufficient inventory"]
       ELSE fill_inventory(
              [meds EXCEPT ![it.medication_id][it.lot_number] = @ - it.quantity_dispensed],
              Tail(items))

fill_prescription(db, prescription_id, items, insurance, payments) ==
  IF prescription_id \notin DOMAIN db.prescriptions
    THEN Raise(db, "ValueError", "Prescription not found")
  ELSE LET rx == db.prescriptions[prescription_id] IN
  IF \E i \in DOMAIN items : items[i].medication_id \notin OrderIds(rx)
    THEN Raise(db, "ValueError", "Dispensed item not in prescription orders")
  ELSE IF \E i \in DOMAIN payments : payments[i].payment_id \notin db.payment_methods
    THEN Raise(db, "ValueError", "Payment method not found")
  ELSE LET total_item_price == SumSeq(items, "price")
           uncovered_amount == Max(0, total_item_price - insurance.billed_amount)
           expected_patient == insurance.patient_copay + uncovered_amount
           actual_patient == SumSeq(payments, "amount") IN
  IF actual_patient # expected_patient
    THEN Raise(db, "ValueError", "Payment mismatch")
  ELSE LET fill == [fill_id |-> _get_new_fill_id(rx), items |-> items,
                    insurance |-> insurance, reversals |-> <<>>]
           orders == [i \in DOMAIN rx.medication_orders |->
                        IF rx.medication_orders[i].medication_id \in ItemIds(items)
                           /\ rx.medication_orders[i].refills_remaining > 0
                          THEN [rx.medication_orders[i] EXCEPT !.refills_remaining = @ - 1]
                          ELSE rx.medication_orders[i]]
           rx1 == [rx EXCEPT !.dispenses = Append(@, fill),
                             !.payment_history = @ \o payments,
                             !.medication_orders = orders]
           inv == fill_inventory(db.medications, items)
           db1 == [db EXCEPT !.prescriptions[prescription_id] = rx1,
                             !.medications = inv.meds] IN
  IF inv.err # ""
    THEN Raise(db1, "ValueError", inv.err)
  ELSE Ok([db1 EXCEPT !.prescriptions[prescription_id].status = "filled"])

\* tools.py 269-278
update_prescription_status(db, prescription_id, status) ==
  IF prescription_id \notin DOMAIN db.prescriptions
    THEN Raise(db, "ValueError", "Prescription not found")
  ELSE Ok([db EXCEPT !.prescriptions[prescription_id].status = status])

\* tools.py 280-294
transfer_prescription(db, prescription_id, new_pharmacy) ==
  IF prescription_id \notin DOMAIN db.prescriptions
    THEN Raise(db, "ValueError", "Prescription not found")
  ELSE Ok([db EXCEPT !.prescriptions[prescription_id].pharmacy = new_pharmacy,
                     !.prescriptions[prescription_id].status = "transferred"])

\* tools.py 307-326
add_prescription_payment(db, prescription_id, payment) ==
  IF prescription_id \notin DOMAIN db.prescriptions
    THEN Raise(db, "ValueError", "Prescription not found")
  ELSE IF payment.payment_id \notin db.payment_methods
    THEN Raise(db, "ValueError", "Payment method not found")
  ELSE Ok([db EXCEPT !.prescriptions[prescription_id].payment_history = Append(@, payment)])

\* the refunds of tools.py 337-341: one negated entry per non-zero payment
RECURSIVE MedRefunds(_)
MedRefunds(hist) ==
  IF hist = <<>> THEN <<>>
  ELSE IF hist[1].amount # 0
    THEN <<[payment_id |-> hist[1].payment_id, amount |-> -hist[1].amount]>>
         \o MedRefunds(Tail(hist))
    ELSE MedRefunds(Tail(hist))

\* tools.py 328-345
cancel_prescription(db, prescription_id) ==
  IF prescription_id \notin DOMAIN db.prescriptions
    THEN Raise(db, "ValueError", "Prescription not found")
  ELSE LET rx == db.prescriptions[prescription_id] IN
       Ok([db EXCEPT !.prescriptions[prescription_id].payment_history =
                         @ \o MedRefunds(rx.payment_history),
                     !.prescriptions[prescription_id].status = "canceled"])

\* index of the first fill with the given id, 0 when there is none (tools.py 444)
FindFill(dispenses, fill_id) ==
  IF \E i \in DOMAIN dispenses : dispenses[i].fill_id = fill_id
    THEN CHOOSE i \in DOMAIN dispenses :
           /\ dispenses[i].fill_id = fill_id
           /\ \A j \in 1..(i - 1) : dispenses[j].fill_id # fill_id
    ELSE 0

\* tools.py 430-465; refund_to_payment_id is "none" for None, the Optional
\* refund_amount is <<>> for None and <<a>> for the amount a
reverse_insurance_claim(db, prescription_id, fill_id, reversal_amount, refund_to_payment_id, refund_amount) ==
  IF prescription_id \notin DOMAIN db.prescriptions
    THEN Raise(db, "ValueError", "Prescription not found")
  ELSE LET rx == db.prescriptions[prescription_id]
           k == FindFill(rx.dispenses, fill_id) IN
  IF k = 0
    THEN Raise(db, "ValueError", "Fill not found")
  ELSE LET db1 == [db EXCEPT !.prescriptions[prescription_id].dispenses[k].reversals =
                                 Append(@, reversal_amount)] IN
  IF refund_to_payment_id # "none" /\ refund_amount # <<>>
    THEN IF refund_to_payment_id \notin db.payment_methods
           THEN Raise(db1, "ValueError", "Payment method not found")
           ELSE Ok([db1 EXCEPT !.prescriptions[prescription_id].payment_history =
                                   Append(@, [payment_id |-> refund_to_payment_id,
                                              amount |-> -Abs(refund_amount[1])]),
                               !.prescriptions[prescription_id].status = "on-hold"])
    ELSE Ok([db1 EXCEPT !.prescriptions[prescription_id].status = "on-hold"])

MedFrame == UNCHANGED <<bank, travel, shop, rest, bball, movie, rail, orch, school, envs>>

LedgerRoom(pid, n) ==
  pid \in DOMAIN med.prescriptions =>
    Len(med.prescriptions[pid].payment_history) + n <= MaxLedger

UpdatePrescriptionStatus ==
  \E pid \in RxIds, st \in {"active", "on-hold", "canceled"} :
    /\ LET r == update_prescription_status(med, pid, st) IN
         /\ med' = r.db
         /\ call' = Called("update_prescription_status", "WRITE", pid, r)
    /\ MedFrame

TransferPrescription ==
  \E pid \in RxIds, ph \in {"PH2"} :
    /\ LET r == transfer_prescription(med, pid, ph) IN
         /\ med' = r.db
         /\ call' = Called("transfer_prescription", "WRITE", pid, r)
    /\ MedFrame

AddPrescriptionPayment ==
  \E pid \in RxIds, p \in PharmacyPayments :
    /\ LedgerRoom(pid, 1)
    /\ LET r == add_prescription_payment(med, pid, p) IN
         /\ med' = r.db
         /\ call' = Called("add_prescription_payment", "WRITE", pid, r)
    /\ MedFrame

CancelPrescription ==
  \E pid \in RxIds :
    /\ pid \in DOMAIN med.prescriptions =>
         LedgerRoom(pid, Len(MedRefunds(med.prescriptions[pid].payment_history)))
    /\ LET r == cancel_prescription(med, pid) IN
         /\ med' = r.db
         /\ call' = Called("cancel_prescription", "WRITE", pid, r)
    /\ MedFrame

ReverseInsuranceClaim ==
  \E pid \in RxIds, fid \in 1..(MaxFills + 1), ra \in {5},
     rto \in MedPaymentIds \cup {"none"}, ramt \in {<<5>>, <<>>} :
    /\ LedgerRoom(pid, 1)
    /\ pid \in DOMAIN med.prescriptions =>
         \A i \in DOMAIN med.prescriptions[pid].dispenses :
           Len(med.prescriptions[pid].dispenses[i].reversals) < MaxReversals
    /\ LET r == reverse_insurance_claim(med, pid, fid, ra, rto, ramt) IN
         /\ med' = r.db
         /\ call' = Called("reverse_insurance_claim", "WRITE", pid, r)
    /\ MedFrame

FillPrescription ==
  \E pid \in RxIds, items \in SeqsUpTo(DispensedItems, MaxItems),
     ins \in DispenseInsurances, pays \in SeqsUpTo(PharmacyPayments, MaxItems) :
    /\ pid \in DOMAIN med.prescriptions =>
         /\ Len(med.prescriptions[pid].dispenses) < MaxFills
         /\ Len(med.prescriptions[pid].payment_history) + Len(pays) <= MaxLedger
    /\ LET r == fill_prescription(med, pid, items, ins, pays) IN
         /\ med' = r.db
         /\ call' = Called("fill_prescription", "WRITE", pid, r)
    /\ MedFrame

InitMed ==
  /\ med = MedInitDB
  /\ bank = <<>> /\ travel = <<>> /\ shop = <<>> /\ rest = <<>>
  /\ bball = <<>> /\ movie = <<>> /\ rail = <<>> /\ orch = <<>>
  /\ school = <<>> /\ envs = <<>>
  /\ call = NoCall

NextMed ==
  \/ FillPrescription
  \/ UpdatePrescriptionStatus
  \/ TransferPrescription
  \/ AddPrescriptionPayment
  \/ CancelPrescription
  \/ ReverseInsuranceClaim

SpecMed == InitMed /\ [][NextMed]_vars

(***************************************************************************)
(* Claims about the medicine domain                                        *)
(***************************************************************************)
\* C1: whenever fill_prescription raises, the database after the call is
\* identical to the database before the call (no fill, no payment, no
\* decremented refill or batch quantity, status unchanged).
C1_FillRaiseLeavesDbUnchanged ==
  [][(call'.tool = "fill_prescription" /\ call'.outcome # "ok") => med' = med]_vars

\* C7: right after a successful cancel_prescription the prescription is
\* 'canceled', and the next WRITE operation on it either raises or returns
\* with the prescription record (status, ledger, fills) unchanged.
C7_CanceledIsTerminal ==
  [][(call.tool = "cancel_prescription" /\ call.outcome = "ok")
       => med'.prescriptions[call.target] = med.prescriptions[call.target]]_vars

(***************************************************************************)
(* Bank domain: src/tau2/domains/bank/tools.py                             *)
(***************************************************************************)
ClientIds == {"C1", "C2", "CX"}

AccountIds == {"A1", "A2", "A3", "B1"}

\* amounts are in tenths of a cent: one cent, 1.4 cents, three cents
TransferAmounts == {0, 10, 14, 30}

\* amounts of transfers to beneficiaries and of loan payments
PaymentAmounts == {0, 10, 30}

TransactionMethod == {"ACH", "Wire", "Card", "ATM", "Internal"}

\* dict assignment d[k] = v
Put(f, k, v) == [x \in (DOMAIN f) \cup {k} |-> IF x = k THEN v ELSE f[x]]

BankInitDB ==
  [clients |->
     [c \in {"C1", "C2"} |->
        IF c = "C1"
          THEN [accounts |->
                  [a \in {"A1", "A2", "A3"} |->
                     IF a = "A1" THEN [type |-> "checking", status |-> "active",
                                       currency |-> "USD", available |-> 20, current |-> 20]
                     ELSE IF a = "A2" THEN [type |-> "savings", status |-> "active",
                                            currency |-> "USD", available |-> 0, current |-> 0]
                     ELSE [type |-> "credit", status |-> "active",
                           currency |-> "EUR", available |-> 10, current |-> 10]],
                beneficiary_ids |-> <<"BN1", "BN2", "BN4">>, email |-> "c1@bank.test"]
          ELSE [accounts |->
                  [a \in {"B1"} |-> [type |-> "checking", status |-> "frozen",
                                     currency |-> "USD", available |-> 10, current |-> 10]],
                beneficiary_ids |-> <<>>, email |-> "c2@bank.test"]],
   transactions |-> <<>>,
   loans |-> [l \in {"L1", "L2"} |->
                [client_id |-> IF l = "L1" THEN "C1" ELSE "C2", repayment_history |-> <<>>]],
   beneficiaries |->
     [b \in {"BN1", "BN2", "BN4"} |->
        [client_id |-> "C1", status |-> IF b = "BN4" THEN "suspended" ELSE "active",
         verification |-> IF b = "BN2" THEN "pending" ELSE "verified",
         allowed_from_account_ids |-> {"A1"},
         per_transfer_limit |-> 20]]]

\* tools.py 87-89: f"tx_{n:07d}" is one-to-one in n, the id is modelled by n
_generate_transaction_id(db) == Cardinality(DOMAIN db.transactions) + 1

InSeq(x, sq) == \E i \in DOMAIN sq : sq[i] = x

\* round(x, 2): the nearest whole cent, a tie going to the even cent
Round2(x) ==
  LET q == x \div 10
      r == x % 10 IN
    IF r < 5 THEN 10 * q
    ELSE IF r > 5 THEN 10 * (q + 1)
    ELSE IF q % 2 = 0 THEN 10 * q ELSE 10 * (q + 1)

Debit(acc, amount) ==
  [acc EXCEPT !.available = Round2(@ - amount), !.current = Round2(@ - amount)]

Credit(acc, amount) ==
  [acc EXCEPT !.available = Round2(@ + amount), !.current = Round2(@ + amount)]

\* initiate_internal_transfer without the test of the source account type
initiate_internal_transfer_NoTypeCheck(db, client_id, from_account_id, to_account_id, amount) ==
  IF amount <= 0
    THEN Raise(db, "ValueError", "Amount must be greater than zero")
  ELSE IF client_id \notin DOMAIN db.clients
    THEN Raise(db, "ValueError", "Client not found")
  ELSE LET client == db.clients[client_id] IN
  IF from_account_id \notin DOMAIN client.accounts \/ to_account_id \notin DOMAIN client.accounts
    THEN Raise(db, "ValueError", "Both accounts must belong to the same client")
  ELSE LET from_acc == client.accounts[from_account_id]
           to_acc == client.accounts[to_account_id] IN
  IF from_acc.status # "active" \/ to_acc.status # "active"
    THEN Raise(db, "ValueError", "Account is not active")
  ELSE IF from_acc.currency # to_acc.currency
    THEN Raise(db, "ValueError", "Cross-currency internal transfers are not supported")
  ELSE IF from_acc.available < amount
    THEN Raise(db, "ValueError", "Insufficient available balance")
  ELSE LET accs1 == [client.accounts EXCEPT ![from_account_id] = Debit(@, amount)]
           accs2 == [accs1 EXCEPT ![to_account_id] = Credit(@, amount)]
           tx_id_out == _generate_transaction_id(db)
           tx_out == [transaction_id |-> tx_id_out, client_id |-> client_id,
                      account_id |-> from_account_id, type |-> "transfer",
                      direction |-> "debit", amount |-> Round2(amount), method |-> "Internal",
                      related_transaction_id |-> 0,
                      balance_after |-> accs2[from_account_id].current]
           tx_id_in == _generate_transaction_id(db)
           tx_in == [transaction_id |-> tx_id_in, client_id |-> client_id,
                     account_id |-> to_account_id, type |-> "transfer",
                     direction |-> "credit", amount |-> Round2(amount), method |-> "Internal",
                     related_transaction_id |-> tx_id_out,
                     balance_after |-> accs2[to_account_id].current]
           tx_out2 == [tx_out EXCEPT !.related_transaction_id = tx_id_in]
           txs1 == Put(db.transactions, tx_id_out, tx_out2)
           txs2 == Put(txs1, tx_id_in, tx_in) IN
       OkRet([db EXCEPT !.clients[client_id].accounts = accs2, !.transactions = txs2],
             <<tx_out2, tx_in>>)

\* tools.py 396-501
initiate_internal_transfer(db, client_id, from_account_id, to_account_id, amount) ==
  IF amount <= 0
    THEN Raise(db, "ValueError", "Amount must be greater than zero")
  ELSE IF client_id \notin DOMAIN db.clients
    THEN Raise(db, "ValueError", "Client not found")
  ELSE LET client == db.clients[client_id] IN
  IF from_account_id \notin DOMAIN client.accounts \/ to_account_id \notin DOMAIN client.accounts
    THEN Raise(db, "ValueError", "Both accounts must belong to the same client")
  ELSE LET from_acc == client.accounts[from_account_id]
           to_acc == client.accounts[to_account_id] IN
  IF from_acc.status # "active" \/ to_acc.status # "active"
    THEN Raise(db, "ValueError", "Account is not active")
  ELSE IF from_acc.type = "credit"
    THEN Raise(db, "ValueError", "Transfers from a credit account are not supported")
  ELSE IF from_acc.currency # to_acc.currency
    THEN Raise(db, "ValueError", "Cross-currency internal transfers are not supported")
  ELSE IF from_acc.available < amount
    THEN Raise(db, "ValueError", "Insufficient available balance")
  ELSE LET accs1 == [client.accounts EXCEPT ![from_account_id] = Debit(@, amount)]
           accs2 == [accs1 EXCEPT ![to_account_id] = Credit(@, amount)]
           tx_id_out == _generate_transaction_id(db)
           tx_out == [transaction_id |-> tx_id_out, client_id |-> client_id,
                      account_id |-> from_account_id, type |-> "transfer",
                      direction |-> "debit", amount |-> Round2(amount), method |-> "Internal",
                      related_transaction_id |-> 0,
                      balance_after |-> accs2[from_account_id].current]
           tx_id_in == _generate_transaction_id(db)
           tx_in == [transaction_id |-> tx_id_in, client_id |-> client_id,
                     account_id |-> to_account_id, type |-> "transfer",
                     direction |-> "credit", amount |-> Round2(amount), method |-> "Internal",
                     related_transaction_id |-> tx_id_out,
                     balance_after |-> accs2[to_account_id].current]
           tx_out2 == [tx_out EXCEPT !.related_transaction_id = tx_id_in]
           txs1 == Put(db.transactions, tx_id_out, tx_out2)
           txs2 == Put(txs1, tx_id_in, tx_in) IN
       OkRet([db EXCEPT !.clients[client_id].accounts = accs2, !.transactions = txs2],
             <<tx_out2, tx_in>>)

\* tools.py 635-717
initiate_transfer_to_beneficiary(db, client_id, from_account_id, beneficiary_id, amount, method) ==
  IF amount <= 0
    THEN Raise(db, "ValueError", "Amount must be greater than zero")
  ELSE IF client_id \notin DOMAIN db.clients
    THEN Raise(db, "ValueError", "Client not found")
  ELSE LET client == db.clients[client_id] IN
  IF from_account_id \notin DOMAIN client.accounts
    THEN Raise(db, "ValueError", "Source account must belong to the client")
  ELSE LET acc == client.accounts[from_account_id] IN
  IF acc.status # "active"
    THEN Raise(db, "ValueError", "Account is not active")
  ELSE IF ~InSeq(beneficiary_id, client.beneficiary_ids)
    THEN Raise(db, "ValueError", "Beneficiary not owned by this client")
  ELSE IF beneficiary_id \notin DOMAIN db.beneficiaries
    THEN Raise(db, "ValueError", "Beneficiary not found")
  ELSE LET b == db.beneficiaries[beneficiary_id] IN
  IF b.status # "active"
    THEN Raise(db, "ValueError", "Beneficiary is not active")
  ELSE IF b.verification # "verified"
    THEN Raise(db, "ValueError", "Beneficiary must be verified before transfers")
  ELSE IF from_account_id \notin b.allowed_from_account_ids
    THEN Raise(db, "ValueError", "This account is not authorized")
  ELSE IF amount > b.per_transfer_limit
    THEN Raise(db, "ValueError", "Amount exceeds per-transfer limit")
  ELSE IF acc.available < amount
    THEN Raise(db, "ValueError", "Insufficient available balance")
  ELSE LET db1 == [db EXCEPT !.clients[client_id].accounts[from_account_id] = Debit(@, amount)]
           tx_id == _generate_transaction_id(db1)
           tx == [transaction_id |-> tx_id, client_id |-> client_id,
                  account_id |-> from_account_id, type |-> "transfer",
                  direction |-> "debit", amount |-> Round2(amount), method |-> method,
                  related_transaction_id |-> 0,
                  balance_after |-> db1.clients[client_id].accounts[from_account_id].current] IN
  IF method \notin TransactionMethod
    THEN Raise(db1, "ValidationError", "Transaction.method")
  ELSE OkRet([db1 EXCEPT !.transactions = Put(@, tx_id, tx)], <<tx>>)

\* make_loan_payment without the test of the available balance
make_loan_payment_NoBalanceCheck(db, client_id, loan_id, from_account_id, amount, method) ==
  IF amount <= 0
    THEN Raise(db, "ValueError", "Amount must be greater than zero")
  ELSE IF client_id \notin DOMAIN db.clients
    THEN Raise(db, "ValueError", "Client not found")
  ELSE LET client == db.clients[client_id] IN
  IF from_account_id \notin DOMAIN client.accounts
    THEN Raise(db, "ValueError", "Source account must belong to the client")
  ELSE IF loan_id \notin DOMAIN db.loans
    THEN Raise(db, "ValueError", "Loan not found")
  ELSE IF db.loans[loan_id].client_id # client_id
    THEN Raise(db, "ValueError", "Loan does not belong to the client")
  ELSE LET acc == client.accounts[from_account_id] IN
  IF acc.status # "active"
    THEN Raise(db, "ValueError", "Account is not active")
  ELSE LET db1 == [db EXCEPT !.clients[client_id].accounts[from_account_id] = Debit(@, amount)]
           tx_id == _generate_transaction_id(db1)
           tx == [transaction_id |-> tx_id, client_id |-> client_id,
                  account_id |-> from_account_id, type |-> "payment",
                  direction |-> "debit", amount |-> Round2(amount), method |-> method,
                  related_transaction_id |-> 0,
                  balance_after |-> db1.clients[client_id].accounts[from_account_id].current] IN
  IF method \notin TransactionMethod
    THEN Raise(db1, "ValidationError", "Transaction.method")
  ELSE OkRet([db1 EXCEPT !.transactions = Put(@, tx_id, tx),
                         !.loans[loan_id].repayment_history =
                             Append(@, [transaction_id |-> tx_id, amount |-> Round2(amount),
                                        method |-> method])], <<tx>>)

\* tools.py 804-890
make_loan_payment(db, client_id, loan_id, from_account_id, amount, method) ==
  IF amount <= 0
    THEN Raise(db, "ValueError", "Amount must be greater than zero")
  ELSE IF client_id \notin DOMAIN db.clients
    THEN Raise(db, "ValueError", "Client not found")
  ELSE LET client == db.clients[client_id] IN
  IF from_account_id \notin DOMAIN client.accounts
    THEN Raise(db, "ValueError", "Source account must belong to the client")
  ELSE IF loan_id \notin DOMAIN db.loans
    THEN Raise(db, "ValueError", "Loan not found")
  ELSE IF db.loans[loan_id].client_id # client_id
    THEN Raise(db, "ValueError", "Loan does not belong to the client")
  ELSE LET acc == client.accounts[from_account_id] IN
  IF acc.status # "active"
    THEN Raise(db, "ValueError", "Account is not active")
  ELSE IF acc.available < amount
    THEN Raise(db, "ValueError", "Insufficient available balance")
  ELSE LET db1 == [db EXCEPT !.clients[client_id].accounts[from_account_id] = Debit(@, amount)]
           tx_id == _generate_transaction_id(db1)
           tx == [transaction_id |-> tx_id, client_id |-> client_id,
                  account_id |-> from_account_id, type |-> "payment",
                  direction |-> "debit", amount |-> Round2(amount), method |-> method,
                  related_transaction_id |-> 0,
                  balance_after |-> db1.clients[client_id].accounts[from_account_id].current] IN
  IF method \notin TransactionMethod
    THEN Raise(db1, "ValidationError", "Transaction.method")
  ELSE OkRet([db1 EXCEPT !.transactions = Put(@, tx_id, tx),
                         !.loans[loan_id].repayment_history =
                             Append(@, [transaction_id |-> tx_id, amount |-> Round2(amount),
                                        method |-> method])], <<tx>>)

\* data_model.py 35
BeneficiaryType == {"individual", "business"}

\* tools.py 503-605: the Beneficiary model is built before the first write, so
\* a beneficiary_type outside the Literal raises with the database untouched;
\* the record is stored under beneficiary_id whether or not one is there
add_beneficiary(db, client_id, beneficiary_id, beneficiary_type, allowed_from_account_ids, per_transfer_limit) ==
  IF client_id \notin DOMAIN db.clients
    THEN Raise(db, "ValueError", "Client not found")
  ELSE LET client == db.clients[client_id] IN
  IF \E acc_id \in allowed_from_account_ids : acc_id \notin DOMAIN client.accounts
    THEN Raise(db, "ValueError", "Allowed account does not belong to client")
  ELSE IF beneficiary_type \notin BeneficiaryType
    THEN Raise(db, "ValidationError", "Beneficiary.type")
  ELSE LET beneficiary == [client_id |-> client_id, status |-> "active",
                           verification |-> "pending",
                           allowed_from_account_ids |-> allowed_from_account_ids,
                           per_transfer_limit |-> per_transfer_limit]
           db1 == [db EXCEPT !.beneficiaries = Put(@, beneficiary_id, beneficiary)] IN
       OkRet(IF InSeq(beneficiary_id, client.beneficiary_ids) THEN db1
             ELSE [db1 EXCEPT !.clients[client_id].beneficiary_ids = Append(@, beneficiary_id)],
             <<beneficiary>>)

\* tools.py 607-633, with _assert_beneficiary_owned_by_client (99-102)
verify_beneficiary(db, client_id, beneficiary_id) ==
  IF client_id \notin DOMAIN db.clients
    THEN Raise(db, "ValueError", "Client not found")
  ELSE IF ~InSeq(beneficiary_id, db.clients[client_id].beneficiary_ids)
    THEN Raise(db, "ValueError", "Beneficiary not owned by this client")
  ELSE IF beneficiary_id \notin DOMAIN db.beneficiaries
    THEN Raise(db, "ValueError", "Beneficiary not found")
  ELSE LET db1 == [db EXCEPT !.beneficiaries[beneficiary_id].verification = "verified"] IN
       OkRet(db1, <<db1.beneficiaries[beneficiary_id]>>)

\* tools.py 55-59: the clients that hold the account (the code takes the first)
AccountHolders(db, account_id) ==
  {c \in DOMAIN db.clients : account_id \in DOMAIN db.clients[c].accounts}

\* tools.py 763-782 (new_status "frozen") and 784-802 (new_status "active")
set_account_status(db, account_id, new_status) ==
  IF AccountHolders(db, account_id) = {}
    THEN Raise(db, "ValueError", "Account not found")
  ELSE LET cid == CHOOSE c \in AccountHolders(db, account_id) : TRUE
           acc == db.clients[cid].accounts[account_id] IN
  IF acc.status = "closed"
    THEN Raise(db, "ValueError", "Account is closed")
  ELSE LET db1 == [db EXCEPT !.clients[cid].accounts[account_id].status = new_status] IN
       OkRet(db1, <<db1.clients[cid].accounts[account_id]>>)

freeze_account(db, account_id) == set_account_status(db, account_id, "frozen")

unfreeze_account(db, account_id) == set_account_status(db, account_id, "active")

BankFrame == UNCHANGED <<med, travel, shop, rest, bball, movie, rail, orch, school, envs>>

TxRoom(n) == Cardinality(DOMAIN bank.transactions) + n <= MaxTx

InitiateInternalTransfer ==
  \E c \in ClientIds, f \in AccountIds, t \in AccountIds, a \in TransferAmounts :
    /\ TxRoom(2)
    \* one call stands for the calls that an unknown client or a zero amount stops
    /\ (c = "CX" \/ a = 0) => (f = "A1" /\ t = "A2")
    /\ LET r == initiate_internal_transfer(bank, c, f, t, a) IN
         /\ bank' = r.db
         /\ call' = Called("initiate_internal_transfer", "WRITE", f, r)
                      @@ [to_account_id |-> t, amount |-> a]
    /\ BankFrame

InitiateTransferToBeneficiary ==
  \E c \in ClientIds, f \in AccountIds, b \in {"BN1", "BN2", "BN4", "BNX"},
     a \in PaymentAmounts, m \in {"ACH", "Cash"} :
    /\ TxRoom(1)
    /\ (c = "CX" \/ a = 0) => (f = "A1" /\ b = "BN1")
    /\ m = "Cash" => (a = 10 /\ b = "BN1")
    /\ LET r == initiate_transfer_to_beneficiary(bank, c, f, b, a, m) IN
         /\ bank' = r.db
         /\ call' = Called("initiate_transfer_to_beneficiary", "WRITE", b, r)
                      @@ [client_id |-> c]
    /\ BankFrame

MakeLoanPayment ==
  \E c \in ClientIds, l \in {"L1", "L2", "LX"}, f \in AccountIds,
     a \in PaymentAmounts, m \in {"Internal", "Cash"} :
    /\ TxRoom(1)
    /\ (c = "CX" \/ a = 0) => (f = "A1" /\ l = "L1")
    /\ m = "Cash" => (a = 10 /\ l \in {"L1", "L2"})
    /\ LET r == make_loan_payment(bank, c, l, f, a, m) IN
         /\ bank' = r.db
         /\ call' = Called("make_loan_payment", "WRITE", "", r)
    /\ BankFrame

AddBeneficiary ==
  \E c \in ClientIds, b \in {"BN1", "BN3"}, ty \in {"individual", "robot"},
     al \in {{"A1"}, {"B1"}} :
    /\ LET r == add_beneficiary(bank, c, b, ty, al, 20) IN
         /\ bank' = r.db
         /\ call' = Called("add_beneficiary", "WRITE", b, r) @@ [client_id |-> c]
    /\ BankFrame

VerifyBeneficiary ==
  \E c \in ClientIds, b \in {"BN1", "BN2", "BN3"} :
    /\ LET r == verify_beneficiary(bank, c, b) IN
         /\ bank' = r.db
         /\ call' = Called("verify_beneficiary", "WRITE", b, r) @@ [client_id |-> c]
    /\ BankFrame

FreezeAccount ==
  \E a \in {"A1", "B1", "AX"} :
    /\ LET r == freeze_account(bank, a) IN
         /\ bank' = r.db
         /\ call' = Called("freeze_account", "WRITE", a, r)
    /\ BankFrame

UnfreezeAccount ==
  \E a \in {"A1", "B1", "AX"} :
    /\ LET r == unfreeze_account(bank, a) IN
         /\ bank' = r.db
         /\ call' = Called("unfreeze_account", "WRITE", a, r)
    /\ BankFrame

InitBank ==
  /\ bank = BankInitDB
  /\ med = <<>> /\ travel = <<>> /\ shop = <<>> /\ rest = <<>>
  /\ bball = <<>> /\ movie = <<>> /\ rail = <<>> /\ orch = <<>>
  /\ school = <<>> /\ envs = <<>>
  /\ call = NoCall

NextBank ==
  \/ InitiateInternalTransfer
  \/ InitiateTransferToBeneficiary
  \/ MakeLoanPayment

SpecBank == InitBank /\ [][NextBank]_vars

\* the money-moving tools together with freeze_account and unfreeze_account
NextAccounts ==
  \/ InitiateInternalTransfer
  \/ InitiateTransferToBeneficiary
  \/ MakeLoanPayment
  \/ FreezeAccount
  \/ UnfreezeAccount

SpecAccounts == InitBank /\ [][NextAccounts]_vars

\* a transfer to a beneficiary of one cent by ACH
PayBeneficiary ==
  \E c \in {"C1", "C2"}, f \in {"A1", "B1"}, b \in {"BN1", "BN2", "BN3", "BN4"} :
    /\ TxRoom(1)
    /\ LET r == initiate_transfer_to_beneficiary(bank, c, f, b, 10, "ACH") IN
         /\ bank' = r.db
         /\ call' = Called("initiate_transfer_to_beneficiary", "WRITE", b, r)
                      @@ [client_id |-> c]
    /\ BankFrame

\* the beneficiary tools, with the transfers they gate
NextBeneficiaries ==
  \/ AddBeneficiary
  \/ VerifyBeneficiary
  \/ PayBeneficiary
  \/ FreezeAccount
  \/ UnfreezeAccount

SpecBeneficiaries == InitBank /\ [][NextBeneficiaries]_vars

(***************************************************************************)
(* Claims about the bank domain                                            *)
(***************************************************************************)
BankWriteTools ==
  {"initiate_internal_transfer", "initiate_transfer_to_beneficiary", "make_loan_payment"}

\* C2: a successful initiate_internal_transfer between two different accounts
\* leaves two new transactions in db.transactions, the returned debit on the
\* source account and the returned credit on the destination account, of the
\* same amount, each naming the other as its related_transaction_id.
C2_TransferLeavesTwoLinkedTransactions ==
  [][(/\ call'.tool = "initiate_internal_transfer" /\ call'.outcome = "ok"
      /\ call'.ret[1].account_id # call'.ret[2].account_id) =>
       LET tx_out == call'.ret[1]
           tx_in == call'.ret[2]
           new == (DOMAIN bank'.transactions) \ (DOMAIN bank.transactions) IN
         /\ tx_out.transaction_id # tx_in.transaction_id
         /\ new = {tx_out.transaction_id, tx_in.transaction_id}
         /\ bank'.transactions[tx_out.transaction_id] = tx_out
         /\ bank'.transactions[tx_in.transaction_id] = tx_in
         /\ tx_out.direction = "debit" /\ tx_in.direction = "credit"
         /\ tx_out.amount = tx_in.amount
         /\ tx_out.related_transaction_id = tx_in.transaction_id
         /\ tx_in.related_transaction_id = tx_out.transaction_id]_vars

\* C3: every successful bank WRITE operation stores each transaction it
\* creates under an id of its own: no stored transaction is overwritten and
\* db.transactions grows by one entry per created transaction.
C3_TransactionIdsDistinct ==
  [][(call'.tool \in BankWriteTools /\ call'.outcome = "ok") =>
       /\ \A t \in DOMAIN bank.transactions :
            t \in DOMAIN bank'.transactions /\ bank'.transactions[t] = bank.transactions[t]
       /\ Cardinality(DOMAIN bank'.transactions)
            = Cardinality(DOMAIN bank.transactions) + Len(call'.ret)]_vars

\* the conditions under which the claim says an internal transfer succeeds
TransferAllowed(db, client_id, from_account_id, to_account_id, amount) ==
  /\ amount > 0
  /\ client_id \in DOMAIN db.clients
  /\ from_account_id \in DOMAIN db.clients[client_id].accounts
  /\ to_account_id \in DOMAIN db.clients[client_id].accounts
  /\ db.clients[client_id].accounts[from_account_id].status = "active"
  /\ db.clients[client_id].accounts[to_account_id].status = "active"
  /\ db.clients[client_id].accounts[from_account_id].type # "credit"
  /\ db.clients[client_id].accounts[from_account_id].currency
       = db.clients[client_id].accounts[to_account_id].currency
  /\ db.clients[client_id].accounts[from_account_id].available >= amount

\* C16: on every database the tools produce, initiate_internal_transfer
\* succeeds exactly when the amount is positive, both accounts belong to the
\* client and are active, the source is not a credit account, the currencies
\* agree and the available balance covers the amount; otherwise it raises
\* ValueError.
C16_TransferSucceedsIff ==
  \A c \in ClientIds, f \in AccountIds, t \in AccountIds, a \in TransferAmounts :
    initiate_internal_transfer(bank, c, f, t, a).outcome
      = IF TransferAllowed(bank, c, f, t, a) THEN "ok" ELSE "ValueError"

C16_Witness ==
  /\ call.tool = "initiate_internal_transfer" /\ call.outcome = "ok"
  /\ TransferAllowed(bank, "C1", "A2", "A1", 10)
  /\ ~TransferAllowed(bank, "C1", "A1", "A2", 30)

\* the sum of the current balances of all accounts
TotalBalance(db) ==
  LET RECURSIVE Sum(_)
      Sum(S) == IF S = {} THEN 0
                ELSE LET x == CHOOSE y \in S : TRUE IN
                       db.clients[x[1]].accounts[x[2]].current + Sum(S \ {x}) IN
    Sum({<<c, a>> \in (DOMAIN db.clients) \X AccountIds : a \in DOMAIN db.clients[c].accounts})

\* C20: a successful initiate_internal_transfer of amount a lowers the
\* current and available balance of the source account by exactly a, raises
\* those of the destination account by exactly a and changes no other
\* account, so that the sum of all balances stays the same.
C20_TransferMovesExactAmount ==
  [][(call'.tool = "initiate_internal_transfer" /\ call'.outcome = "ok") =>
       LET c == call'.ret[1].client_id
           f == call'.target
           t == call'.to_account_id
           a == call'.amount
           pre == bank.clients[c].accounts
           post == bank'.clients[c].accounts IN
         /\ post[f].current = pre[f].current - a
         /\ post[f].available = pre[f].available - a
         /\ post[t].current = pre[t].current + a
         /\ post[t].available = pre[t].available + a
         /\ \A x \in DOMAIN pre \ {f, t} : post[x] = pre[x]
         /\ \A c2 \in DOMAIN bank.clients \ {c} : bank'.clients[c2] = bank.clients[c2]
         /\ TotalBalance(bank') = TotalBalance(bank)]_vars

\* C17: a bank WRITE tool that raises leaves the database as it was.
C17_BankRaiseLeavesDbUnchanged ==
  [][(call'.tool \in BankWriteTools /\ call'.outcome # "ok") => bank' = bank]_vars

\* C21: the available balance of every account stays non-negative through
\* every sequence of internal transfers, transfers to beneficiaries, loan
\* payments, freezes and unfreezes.
C21_AvailableNeverNegative ==
  \A c \in DOMAIN bank.clients : \A a \in DOMAIN bank.clients[c].accounts :
    bank.clients[c].accounts[a].available >= 0

\* an account emptied by two debits, after a freeze and an unfreeze
C21_Witness ==
  /\ call.tool = "unfreeze_account" /\ call.outcome = "ok"
  /\ bank.clients["C1"].accounts["A1"].available = 0
  /\ Cardinality(DOMAIN bank.transactions) = 2

\* the client owns the beneficiary: the id is in the client's beneficiary_ids
\* and the stored beneficiary names the client
OwnsBeneficiary(db, client_id, beneficiary_id) ==
  /\ client_id \in DOMAIN db.clients
  /\ InSeq(beneficiary_id, db.clients[client_id].beneficiary_ids)
  /\ beneficiary_id \in DOMAIN db.beneficiaries
  /\ db.beneficiaries[beneficiary_id].client_id = client_id

\* C22: a transfer to a beneficiary succeeds only for a beneficiary the client
\* owns that is active and verified; add_beneficiary leaves the beneficiary
\* pending, and the only step that makes a beneficiary verified is a
\* verify_beneficiary call for it by a client that owns it, so a beneficiary
\* that was added receives no transfer before such a call.
C22_TransferNeedsVerifiedOwnedBeneficiary ==
  [][/\ (call'.tool = "initiate_transfer_to_beneficiary" /\ call'.outcome = "ok") =>
          /\ OwnsBeneficiary(bank, call'.client_id, call'.target)
          /\ call'.target \in DOMAIN bank.beneficiaries
          /\ bank.beneficiaries[call'.target].status = "active"
          /\ bank.beneficiaries[call'.target].verification = "verified"
     /\ (call'.tool = "add_beneficiary" /\ call'.outcome = "ok") =>
          bank'.beneficiaries[call'.target].verification = "pending"
     /\ \A b \in DOMAIN bank'.beneficiaries :
          (/\ bank'.beneficiaries[b].verification = "verified"
           /\ \/ b \notin DOMAIN bank.beneficiaries
              \/ bank.beneficiaries[b].verification # "verified") =>
            /\ call'.tool = "verify_beneficiary" /\ call'.outcome = "ok"
            /\ call'.target = b
            /\ OwnsBeneficiary(bank, call'.client_id, b)]_vars

\* every id in a client's beneficiary_ids names a beneficiary of that client
OwnershipConsistent(db) ==
  \A c \in DOMAIN db.clients : \A i \in DOMAIN db.clients[c].beneficiary_ids :
    LET b == db.clients[c].beneficiary_ids[i] IN
      b \in DOMAIN db.beneficiaries /\ db.beneficiaries[b].client_id = c

\* C23: add_beneficiary and verify_beneficiary keep beneficiary ownership
\* consistent, and add_beneficiary never replaces the stored record of a
\* beneficiary that already exists.
C23_BeneficiaryOwnershipConsistent ==
  [][(call'.tool \in {"add_beneficiary", "verify_beneficiary"}) =>
       /\ OwnershipConsistent(bank) => OwnershipConsistent(bank')
       /\ (call'.tool = "add_beneficiary" /\ call'.target \in DOMAIN bank.beneficiaries) =>
            bank'.beneficiaries[call'.target] = bank.beneficiaries[call'.target]]_vars

(***************************************************************************)
(* Travel domain: src/tau2/domains/travel/tools.py                         *)
(***************************************************************************)
TravelerIds == {"T1", "TX"}

DepartureDates == {"D1", "D2", "DX"}

\* amounts of the travel domain are in tenths of a cent, as those of the bank
AddOnLists ==
  { <<>>, <<[type |-> "excursion", price |-> 50]>>, <<[type |-> "transfer", price |-> 4]>> }

MeetingDates == {"M1", "MX"}

TimeRanges == {"09:00-10:00", "10:00-11:00", "12:00-13:00"}

NewBookingIds == <<"TAU001", "TAU002", "TAU003">>

BookingIds == {"B1", "TAU001", "BX"}

TravelInitDB ==
  [travelers |->
     [t \in {"T1"} |->
        [payment_methods |-> {"card"},
         bookings |-> <<[booking_id |-> "B1", package_id |-> "P1", agent_id |-> "AG1",
                         departure_date |-> "D1", status |-> "confirmed",
                         travelers |-> 1, add_ons |-> <<>>, insurance |-> "none",
                         payment_history |-> <<[payment_id |-> "card", amount |-> 100]>>,
                         total_price |-> 100]>>]],
   packages |->
     [p \in {"P1"} |->
        [managed_by_agents |-> <<"AG1">>,
         departures |->
           [dd \in {"D1", "D2"} |->
              IF dd = "D1" THEN [status |-> "available", available_slots |-> 1, base_price |-> 100]
                           ELSE [status |-> "available", available_slots |-> 2, base_price |-> 150]]]],
   agents |->
     [a \in {"AG1"} |->
        [assigned_travelers |-> <<"T1">>, bookings_handled |-> <<"B1">>,
         availability |-> [m \in {"M1"} |-> [slots |-> <<"09:00-10:00", "10:00-11:00">>]]]]]

\* tools.py 60-71: position of the booking in the traveler's list, 0 if absent
BookingIndex(db, traveler_id, booking_id) ==
  LET bs == db.travelers[traveler_id].bookings
      hits == {i \in DOMAIN bs : bs[i].booking_id = booking_id} IN
    IF hits = {} THEN 0 ELSE CHOOSE i \in hits : \A j \in hits : i <= j

BookingOwner(db, booking_id) ==
  {t \in DOMAIN db.travelers : BookingIndex(db, t, booking_id) # 0}

\* tools.py 73-81
_get_new_booking_id(db) ==
  LET free == {i \in DOMAIN NewBookingIds : BookingOwner(db, NewBookingIds[i]) = {}} IN
    IF free = {} THEN "" ELSE NewBookingIds[CHOOSE i \in free : \A j \in free : i <= j]

\* tools.py 105-124: 50.0 and 100.0 per traveler, the total rounded to cents
_calc_total_price(base_price_per_person, num_travelers, add_ons, insurance) ==
  Round2(base_price_per_person * num_travelers + SumSeq(add_ons, "price")
           + (IF insurance = "standard" THEN 50000 * num_travelers
              ELSE IF insurance = "premium" THEN 100000 * num_travelers ELSE 0))

\* tools.py 87-103: "" when the departure is valid, else the error
_validate_departure(package, departure_date, required_slots) ==
  IF departure_date \notin DOMAIN package.departures THEN "not offered"
  ELSE IF package.departures[departure_date].status # "available" THEN "not available"
  ELSE IF package.departures[departure_date].available_slots < required_slots
    THEN "Not enough slots"
  ELSE ""

AppendNew(sq, x) == IF InSeq(x, sq) THEN sq ELSE Append(sq, x)

\* tools.py 223-305
book_package(db, traveler_id, package_id, departure_date, num_travelers, add_ons, insurance, payment_methods) ==
  IF traveler_id \notin DOMAIN db.travelers THEN Raise(db, "ValueError", "Traveler not found")
  ELSE IF package_id \notin DOMAIN db.packages THEN Raise(db, "ValueError", "Package not found")
  ELSE LET traveler == db.travelers[traveler_id]
           package == db.packages[package_id] IN
  IF package.managed_by_agents = <<>>
    THEN Raise(db, "ValueError", "No managing agent available for this package")
  ELSE LET agent_id == package.managed_by_agents[1] IN
  IF agent_id \notin DOMAIN db.agents THEN Raise(db, "ValueError", "Agent not found")
  ELSE IF _validate_departure(package, departure_date, num_travelers) # ""
    THEN Raise(db, "ValueError", _validate_departure(package, departure_date, num_travelers))
  ELSE LET total_price == _calc_total_price(package.departures[departure_date].base_price,
                                            num_travelers, add_ons, insurance) IN
  IF \E i \in DOMAIN payment_methods :
        payment_methods[i].payment_id \notin traveler.payment_methods
    THEN Raise(db, "ValueError", "Payment method not found for traveler")
  ELSE IF Round2(total_price) # Round2(SumSeq(payment_methods, "amount"))
    THEN Raise(db, "ValueError", "Payment amount does not add up")
  ELSE LET booking_id == _get_new_booking_id(db) IN
  IF booking_id = "" THEN Raise(db, "ValueError", "Too many bookings created")
  ELSE LET booking == [booking_id |-> booking_id, package_id |-> package_id,
                       agent_id |-> agent_id, departure_date |-> departure_date,
                       status |-> "confirmed", travelers |-> num_travelers,
                       add_ons |-> add_ons,
                       insurance |-> insurance, payment_history |-> payment_methods,
                       total_price |-> total_price] IN
    OkRet([db EXCEPT
             !.travelers[traveler_id].bookings = Append(@, booking),
             !.packages[package_id].departures[departure_date].available_slots =
                 @ - num_travelers,
             !.agents[agent_id].assigned_travelers = AppendNew(@, traveler_id),
             !.agents[agent_id].bookings_handled = AppendNew(@, booking_id)],
          <<booking_id>>)

\* tools.py 316-320: one negated entry for every entry of the ledger
BookingRefunds(payment_history) ==
  [i \in DOMAIN payment_history |->
     [payment_id |-> payment_history[i].payment_id, amount |-> 0 - payment_history[i].amount]]

\* tools.py 307-332
cancel_booking(db, booking_id) ==
  IF BookingOwner(db, booking_id) = {} THEN Raise(db, "ValueError", "Booking not found")
  ELSE LET t == CHOOSE x \in BookingOwner(db, booking_id) : TRUE
           i == BookingIndex(db, t, booking_id)
           booking == db.travelers[t].bookings[i] IN
  IF booking.package_id \notin DOMAIN db.packages THEN Raise(db, "ValueError", "Package not found")
  ELSE LET db1 == [db EXCEPT
                     !.travelers[t].bookings[i].payment_history =
                         @ \o BookingRefunds(@),
                     !.travelers[t].bookings[i].status = "cancelled"] IN
    IF booking.departure_date \in DOMAIN db.packages[booking.package_id].departures
      THEN Ok([db1 EXCEPT
                 !.packages[booking.package_id].departures[booking.departure_date].available_slots =
                     @ + booking.travelers])
      ELSE Ok(db1)

\* tools.py 384-439
update_booking_departure_date(db, booking_id, new_departure_date, payment_method_id) ==
  IF BookingOwner(db, booking_id) = {} THEN Raise(db, "ValueError", "Booking not found")
  ELSE LET t == CHOOSE x \in BookingOwner(db, booking_id) : TRUE
           i == BookingIndex(db, t, booking_id)
           booking == db.travelers[t].bookings[i] IN
  IF booking.package_id \notin DOMAIN db.packages THEN Raise(db, "ValueError", "Package not found")
  ELSE LET package == db.packages[booking.package_id]
           num_travelers == booking.travelers IN
  IF payment_method_id \notin db.travelers[t].payment_methods
    THEN Raise(db, "ValueError", "Payment method not found for traveler")
  ELSE IF _validate_departure(package, new_departure_date, num_travelers) # ""
    THEN Raise(db, "ValueError", _validate_departure(package, new_departure_date, num_travelers))
  ELSE LET new_total_price == _calc_total_price(package.departures[new_departure_date].base_price,
                                                num_travelers, booking.add_ons, booking.insurance)
           delta == Round2(new_total_price - booking.total_price)
           deps1 == IF booking.departure_date \in DOMAIN package.departures
                      THEN [package.departures EXCEPT
                              ![booking.departure_date].available_slots = @ + num_travelers]
                      ELSE package.departures
           deps2 == [deps1 EXCEPT ![new_departure_date].available_slots = @ - num_travelers] IN
    Ok([db EXCEPT
          !.packages[booking.package_id].departures = deps2,
          !.travelers[t].bookings[i].payment_history =
              IF delta # 0 THEN Append(@, [payment_id |-> payment_method_id, amount |-> delta])
                           ELSE @,
          !.travelers[t].bookings[i].departure_date = new_departure_date,
          !.travelers[t].bookings[i].total_price = new_total_price])

\* update_booking_add_ons that records no payment for the difference
update_booking_add_ons_NoCharge(db, booking_id, add_ons, payment_method_id) ==
  IF BookingOwner(db, booking_id) = {} THEN Raise(db, "ValueError", "Booking not found")
  ELSE LET t == CHOOSE x \in BookingOwner(db, booking_id) : TRUE
           i == BookingIndex(db, t, booking_id)
           booking == db.travelers[t].bookings[i] IN
  IF booking.package_id \notin DOMAIN db.packages THEN Raise(db, "ValueError", "Package not found")
  ELSE LET package == db.packages[booking.package_id] IN
  IF payment_method_id \notin db.travelers[t].payment_methods
    THEN Raise(db, "ValueError", "Payment method not found for traveler")
  ELSE IF _validate_departure(package, booking.departure_date, 0) # ""
    THEN Raise(db, "ValueError", _validate_departure(package, booking.departure_date, 0))
  ELSE LET new_total == _calc_total_price(package.departures[booking.departure_date].base_price,
                                          booking.travelers, add_ons, booking.insurance) IN
    Ok([db EXCEPT
          !.travelers[t].bookings[i].add_ons = add_ons,
          !.travelers[t].bookings[i].total_price = new_total])

\* tools.py 334-382
update_booking_add_ons(db, booking_id, add_ons, payment_method_id) ==
  IF BookingOwner(db, booking_id) = {} THEN Raise(db, "ValueError", "Booking not found")
  ELSE LET t == CHOOSE x \in BookingOwner(db, booking_id) : TRUE
           i == BookingIndex(db, t, booking_id)
           booking == db.travelers[t].bookings[i] IN
  IF booking.package_id \notin DOMAIN db.packages THEN Raise(db, "ValueError", "Package not found")
  ELSE LET package == db.packages[booking.package_id] IN
  IF payment_method_id \notin db.travelers[t].payment_methods
    THEN Raise(db, "ValueError", "Payment method not found for traveler")
  ELSE IF _validate_departure(package, booking.departure_date, 0) # ""
    THEN Raise(db, "ValueError", _validate_departure(package, booking.departure_date, 0))
  ELSE LET new_total == _calc_total_price(package.departures[booking.departure_date].base_price,
                                          booking.travelers, add_ons, booking.insurance)
           delta == Round2(new_total - booking.total_price) IN
    Ok([db EXCEPT
          !.travelers[t].bookings[i].payment_history =
              IF delta # 0 THEN Append(@, [payment_id |-> payment_method_id, amount |-> delta])
                           ELSE @,
          !.travelers[t].bookings[i].add_ons = add_ons,
          !.travelers[t].bookings[i].total_price = new_total])

\* list.remove: the sequence without the first occurrence of x
RemoveFirst(sq, x) ==
  LET i == CHOOSE k \in DOMAIN sq : sq[k] = x /\ \A j \in 1..(k - 1) : sq[j] # x IN
    SubSeq(sq, 1, i - 1) \o SubSeq(sq, i + 1, Len(sq))

\* schedule_agent_meeting that leaves the slot in the agent's availability
schedule_agent_meeting_KeepsSlot(db, agent_id, date, time_range, traveler_id) ==
  IF agent_id \notin DOMAIN db.agents THEN Raise(db, "ValueError", "Agent not found")
  ELSE IF traveler_id \notin DOMAIN db.travelers THEN Raise(db, "ValueError", "Traveler not found")
  ELSE IF date \notin DOMAIN db.agents[agent_id].availability
    THEN Raise(db, "ValueError", "Agent is not available on date")
  ELSE IF ~InSeq(time_range, db.agents[agent_id].availability[date].slots)
    THEN Raise(db, "ValueError", "Time slot not available")
  ELSE OkRet(db, <<"Meeting scheduled">>)

\* tools.py 471-489
schedule_agent_meeting(db, agent_id, date, time_range, traveler_id) ==
  IF agent_id \notin DOMAIN db.agents THEN Raise(db, "ValueError", "Agent not found")
  ELSE IF traveler_id \notin DOMAIN db.travelers THEN Raise(db, "ValueError", "Traveler not found")
  ELSE IF date \notin DOMAIN db.agents[agent_id].availability
    THEN Raise(db, "ValueError", "Agent is not available on date")
  ELSE IF ~InSeq(time_range, db.agents[agent_id].availability[date].slots)
    THEN Raise(db, "ValueError", "Time slot not available")
  ELSE OkRet([db EXCEPT !.agents[agent_id].availability[date].slots = RemoveFirst(@, time_range)],
             <<"Meeting scheduled">>)

TravelFrame == UNCHANGED <<med, bank, shop, rest, bball, movie, rail, orch, school, envs>>

\* the booking with this id, as _get_booking finds it
BookingOf(db, booking_id) ==
  LET t == CHOOSE x \in BookingOwner(db, booking_id) : TRUE IN
    db.travelers[t].bookings[BookingIndex(db, t, booking_id)]

\* room left in the booking's payment_history for n more entries
EntriesRoom(booking_id, n) ==
  IF BookingOwner(travel, booking_id) = {} THEN TRUE
  ELSE Len(BookingOf(travel, booking_id).payment_history) + n <= MaxEntries

\* entries that cancel_booking would append to the booking
RefundCount(booking_id) ==
  IF BookingOwner(travel, booking_id) = {} THEN 0
  ELSE Len(BookingOf(travel, booking_id).payment_history)

BookingPayments ==
  { <<>>, <<[payment_id |-> "card", amount |-> 100]>>, <<[payment_id |-> "card", amount |-> 150]>>,
    <<[payment_id |-> "card", amount |-> 300]>>, <<[payment_id |-> "cash", amount |-> 100]>>,
    <<[payment_id |-> "card", amount |-> 104]>> }

BookPackage ==
  \E t \in TravelerIds, p \in {"P1", "PX"}, dd \in DepartureDates, n \in {1, 2},
     ao \in {<<>>, <<[type |-> "excursion", price |-> 50]>>}, pays \in BookingPayments :
    /\ t \in DOMAIN travel.travelers => Len(travel.travelers[t].bookings) < MaxBookings
    \* one call stands for the calls that an unknown traveler or package stops
    /\ (t = "TX" \/ p = "PX") => (dd = "D1" /\ n = 1 /\ ao = <<>> /\ pays = <<>>)
    /\ ao # <<>> => (n = 1 /\ dd \in {"D1", "D2"})
    /\ LET r == book_package(travel, t, p, dd, n, ao, "none", pays) IN
         /\ travel' = r.db
         /\ call' = Called("book_package", "WRITE", "", r)
    /\ TravelFrame

CancelBooking ==
  \E b \in BookingIds :
    /\ EntriesRoom(b, RefundCount(b))
    /\ LET r == cancel_booking(travel, b) IN
         /\ travel' = r.db
         /\ call' = Called("cancel_booking", "WRITE", b, r)
    /\ TravelFrame

UpdateBookingDepartureDate ==
  \E b \in BookingIds, dd \in DepartureDates, pm \in {"card", "cash"} :
    /\ EntriesRoom(b, 1)
    /\ LET r == update_booking_departure_date(travel, b, dd, pm) IN
         /\ travel' = r.db
         /\ call' = Called("update_booking_departure_date", "WRITE", b, r)
    /\ TravelFrame

UpdateBookingAddOns ==
  \E b \in {"TAU001", "BX"}, ao \in AddOnLists, pm \in {"card", "cash"} :
    /\ EntriesRoom(b, 1)
    /\ LET r == update_booking_add_ons(travel, b, ao, pm) IN
         /\ travel' = r.db
         /\ call' = Called("update_booking_add_ons", "WRITE", b, r)
    /\ TravelFrame

ScheduleAgentMeeting ==
  \E a \in {"AG1", "AGX"}, m \in MeetingDates, tr \in TimeRanges, t \in TravelerIds :
    /\ LET r == schedule_agent_meeting(travel, a, m, tr, t) IN
         /\ travel' = r.db
         /\ call' = Called("schedule_agent_meeting", "WRITE", a, r)
                      @@ [date |-> m, time_range |-> tr]
    /\ TravelFrame

InitTravel ==
  /\ travel = TravelInitDB
  /\ med = <<>> /\ bank = <<>> /\ shop = <<>> /\ rest = <<>>
  /\ bball = <<>> /\ movie = <<>> /\ rail = <<>> /\ orch = <<>>
  /\ school = <<>> /\ envs = <<>>
  /\ call = NoCall

NextTravel ==
  \/ BookPackage
  \/ CancelBooking
  \/ UpdateBookingDepartureDate

SpecTravel == InitTravel /\ [][NextTravel]_vars

\* bookings that are created and updated but never cancelled
NextTravelUpdates ==
  \/ BookPackage
  \/ UpdateBookingAddOns
  \/ UpdateBookingDepartureDate

SpecTravelUpdates == InitTravel /\ [][NextTravelUpdates]_vars

\* meetings, between cancellations and changes of the existing booking
NextMeetings ==
  \/ ScheduleAgentMeeting
  \/ CancelBooking
  \/ UpdateBookingDepartureDate

SpecMeetings == InitTravel /\ [][NextMeetings]_vars

(***************************************************************************)
(* Claims about the travel domain                                          *)
(***************************************************************************)
\* C4: cancel_booking on a booking that is already cancelled is a no-op: the
\* booking's payment_history and status and the available_slots of its
\* departure are the same after the call as before it.
C4_CancelTwiceIsNoOp ==
  [][(/\ call'.tool = "cancel_booking" /\ call'.outcome = "ok"
      /\ BookingOwner(travel, call'.target) # {}
      /\ BookingOf(travel, call'.target).status = "cancelled") =>
       LET before == BookingOf(travel, call'.target)
           after == BookingOf(travel', call'.target) IN
         /\ after.payment_history = before.payment_history
         /\ after.status = before.status
         /\ travel'.packages[before.package_id].departures
              = travel.packages[before.package_id].departures]_vars

\* the bookings that book_package created
CreatedBookings(db) ==
  {b \in {NewBookingIds[i] : i \in DOMAIN NewBookingIds} : BookingOwner(db, b) # {}}

Paid(db, booking_id) == SumSeq(BookingOf(db, booking_id).payment_history, "amount")

HeldSlots(db, package_id, departure_date) ==
  LET RECURSIVE Held(_, _)
      Held(bs, i) ==
        IF i > Len(bs) THEN 0
        ELSE (IF /\ bs[i].package_id = package_id
                 /\ bs[i].departure_date = departure_date
                 /\ bs[i].status # "cancelled"
                THEN bs[i].travelers ELSE 0) + Held(bs, i + 1)
      RECURSIVE OfTravelers(_)
      OfTravelers(S) ==
        IF S = {} THEN 0
        ELSE LET t == CHOOSE x \in S : TRUE IN
               Held(db.travelers[t].bookings, 1) + OfTravelers(S \ {t}) IN
    OfTravelers(DOMAIN db.travelers)

\* C25: for every departure of every package, available_slots plus the
\* travelers of the non-cancelled bookings on it is what it was initially,
\* and available_slots is never negative.
C25_SlotsConserved ==
  \A p \in DOMAIN travel.packages : \A dd \in DOMAIN travel.packages[p].departures :
    /\ travel.packages[p].departures[dd].available_slots >= 0
    /\ travel.packages[p].departures[dd].available_slots + HeldSlots(travel, p, dd)
         = TravelInitDB.packages[p].departures[dd].available_slots
             + HeldSlots(TravelInitDB, p, dd)

\* the slots the agent offers on the date
SlotsOf(db, agent_id, date) ==
  IF agent_id \in DOMAIN db.agents /\ date \in DOMAIN db.agents[agent_id].availability
    THEN db.agents[agent_id].availability[date].slots
    ELSE <<>>

SaleRefs == {"S1", "S2", "SX"}

InstrumentIds == {"card_1", "gift_1", "card_X"}

CancelReasons == {"no longer needed", "other"}

ShopInitDB ==
  [sales |->
     [sr \in {"S1", "S2"} |->
        [account_key |-> "acct_1",
         state |-> IF sr = "S1" THEN "pending" ELSE "delivered",
         delivery |-> "1 Main St",
         lines |-> <<[unit_sku |-> "sku_1", catalog_ref |-> "grp_1", unit_price |-> 10]>>,
         ledger |-> <<[entry_kind |-> "payment", value |-> 10, instrument_id |-> "card_1"]>>]],
   catalogue |->
     [g \in {"grp_1"} |->
        [o \in {"sku_1", "sku_2", "sku_3"} |->
           [in_stock |-> o # "sku_3", unit_price |-> IF o = "sku_2" THEN 12 ELSE 10]]],
   accounts |->
     [a \in {"acct_1"} |->
        [funding_sources |->
           [i \in {"card_1", "gift_1"} |->
              IF i = "card_1" THEN "credit_card" ELSE "gift_card"]]]]

\* list comprehension [e for e in entries if e[field] == kind]
OfKind(entries, field, kind) == SelectSeq(entries, LAMBDA e : e[field] = kind)

\* tools.py 62-64: "pending" in sale.state.lower()
_is_pending_sale(sale) == sale.state \in {"pending", "pending (item modified)"}

\* tools.py 55-60: "" when the funding source exists, else the error
_get_funding_source(db, account_key, instrument_id) ==
  IF account_key \notin DOMAIN db.accounts THEN "Account not found"
  ELSE IF instrument_id \notin DOMAIN db.accounts[account_key].funding_sources
    THEN "Funding source not found"
  ELSE ""

\* tools.py 294-341
modify_pending_sale_payment(db, sale_ref, instrument_id) ==
  IF sale_ref \notin DOMAIN db.sales THEN Raise(db, "ValueError", "Sale not found")
  ELSE LET sale == db.sales[sale_ref] IN
  IF ~_is_pending_sale(sale)
    THEN Raise(db, "ValueError", "Non-pending sale cannot be modified")
  ELSE IF _get_funding_source(db, sale.account_key, instrument_id) # ""
    THEN Raise(db, "ValueError", _get_funding_source(db, sale.account_key, instrument_id))
  ELSE LET payments == OfKind(sale.ledger, "entry_kind", "payment") IN
  IF Len(payments) # 1
    THEN Raise(db, "ValueError", "There should be exactly one payment for a pending sale")
  ELSE LET current_payment == payments[1] IN
  IF current_payment.instrument_id = instrument_id
    THEN Raise(db, "ValueError", "The new funding instrument should be different")
  ELSE LET amount == current_payment.value IN
    Ok([db EXCEPT !.sales[sale_ref].ledger =
          @ \o <<[entry_kind |-> "payment", value |-> amount, instrument_id |-> instrument_id],
                 [entry_kind |-> "refund", value |-> amount,
                  instrument_id |-> current_payment.instrument_id]>>])

\* tools.py 368-373: a refund for every payment entry, in ledger order
SaleRefunds(ledger) ==
  LET payments == OfKind(ledger, "entry_kind", "payment") IN
    [i \in DOMAIN payments |-> [payments[i] EXCEPT !.entry_kind = "refund"]]

\* tools.py 343-376
cancel_pending_sale(db, sale_ref, reason) ==
  IF sale_ref \notin DOMAIN db.sales THEN Raise(db, "ValueError", "Sale not found")
  ELSE IF db.sales[sale_ref].state # "pending"
    THEN Raise(db, "ValueError", "Non-pending sale cannot be cancelled")
  ELSE IF reason \notin {"no longer needed", "ordered by mistake"}
    THEN Raise(db, "ValueError", "Invalid reason")
  ELSE Ok([db EXCEPT !.sales[sale_ref].ledger = @ \o SaleRefunds(@),
                     !.sales[sale_ref].state = "cancelled"])

\* list.count
Count(sq, x) == Cardinality({i \in DOMAIN sq : sq[i] = x})

\* tools.py 378-424
return_delivered_sale_lines(db, sale_ref, unit_skus, instrument_id) ==
  IF sale_ref \notin DOMAIN db.sales THEN Raise(db, "ValueError", "Sale not found")
  ELSE LET sale == db.sales[sale_ref] IN
  IF sale.state # "delivered"
    THEN Raise(db, "ValueError", "Non-delivered sale cannot be returned")
  ELSE IF _get_funding_source(db, sale.account_key, instrument_id) # ""
    THEN Raise(db, "ValueError", _get_funding_source(db, sale.account_key, instrument_id))
  ELSE LET payments == OfKind(sale.ledger, "entry_kind", "payment") IN
  IF payments = <<>> THEN Raise(db, "ValueError", "Original payment not found")
  ELSE IF /\ db.accounts[sale.account_key].funding_sources[instrument_id] # "gift_card"
          /\ instrument_id # payments[1].instrument_id
    THEN Raise(db, "ValueError", "Funding instrument should be the original or a gift card")
  ELSE LET all_skus == [i \in DOMAIN sale.lines |-> sale.lines[i].unit_sku] IN
  IF \E i \in DOMAIN unit_skus : Count(unit_skus, unit_skus[i]) > Count(all_skus, unit_skus[i])
    THEN Raise(db, "ValueError", "Some item not found")
  ELSE Ok([db EXCEPT !.sales[sale_ref].state = "return requested"])

\* tools.py 42-53: "" when the offering exists in the group, else the error
_get_offering(db, group_ref, unit_sku) ==
  IF group_ref \notin DOMAIN db.catalogue THEN "Catalogue group not found"
  ELSE IF unit_sku \notin DOMAIN db.catalogue[group_ref] THEN "Offering not found"
  ELSE ""

\* tools.py 472-486: the error of one pair of an old and a new SKU, or ""
ExchangePairError(db, sale, old_sku, new_sku) ==
  LET held == {i \in DOMAIN sale.lines : sale.lines[i].unit_sku = old_sku} IN
    IF held = {} THEN "Item not found"
    ELSE LET line == sale.lines[CHOOSE i \in held : \A j \in held : i <= j] IN
      IF _get_offering(db, line.catalog_ref, new_sku) # ""
        THEN _get_offering(db, line.catalog_ref, new_sku)
      ELSE IF ~db.catalogue[line.catalog_ref][new_sku].in_stock
        THEN "New item not found or not in stock"
      ELSE ""

\* the checks of the exchange that follow the test of the sale's state
\* (tools.py 459-494); the sale's lines and ledger are left as they are
RequestExchange(db, sale_ref, unit_skus_old, unit_skus_new, instrument_id) ==
  LET sale == db.sales[sale_ref]
      all_skus_in_sale == [i \in DOMAIN sale.lines |-> sale.lines[i].unit_sku] IN
    IF Len(unit_skus_old) # Len(unit_skus_new)
      THEN Raise(db, "ValueError", "The number of items to be exchanged should match")
    ELSE IF \E i \in DOMAIN unit_skus_old :
              Count(unit_skus_old, unit_skus_old[i]) > Count(all_skus_in_sale, unit_skus_old[i])
      THEN Raise(db, "ValueError", "Number of items not found")
    ELSE IF _get_funding_source(db, sale.account_key, instrument_id) # ""
      THEN Raise(db, "ValueError", _get_funding_source(db, sale.account_key, instrument_id))
    ELSE LET bad == {i \in DOMAIN unit_skus_old :
                       ExchangePairError(db, sale, unit_skus_old[i], unit_skus_new[i]) # ""} IN
      IF bad # {}
        THEN LET k == CHOOSE i \in bad : \A j \in bad : i <= j IN
               Raise(db, "ValueError",
                     ExchangePairError(db, sale, unit_skus_old[k], unit_skus_new[k]))
      ELSE Ok([db EXCEPT !.sales[sale_ref].state = "exchange requested"])

\* an exchange that does not test the state of the sale
exchange_delivered_sale_lines_AnyState(db, sale_ref, unit_skus_old, unit_skus_new, instrument_id) ==
  IF sale_ref \notin DOMAIN db.sales THEN Raise(db, "ValueError", "Sale not found")
  ELSE RequestExchange(db, sale_ref, unit_skus_old, unit_skus_new, instrument_id)

\* tools.py 426-494
exchange_delivered_sale_lines(db, sale_ref, unit_skus_old, unit_skus_new, instrument_id) ==
  IF sale_ref \notin DOMAIN db.sales THEN Raise(db, "ValueError", "Sale not found")
  ELSE IF db.sales[sale_ref].state # "delivered"
    THEN Raise(db, "ValueError", "Non-delivered sale cannot be exchanged")
  ELSE RequestExchange(db, sale_ref, unit_skus_old, unit_skus_new, instrument_id)

\* tools.py 254-292: the address is modelled by its first line
modify_pending_sale_delivery(db, sale_ref, line1) ==
  IF sale_ref \notin DOMAIN db.sales THEN Raise(db, "ValueError", "Sale not found")
  ELSE IF ~_is_pending_sale(db.sales[sale_ref])
    THEN Raise(db, "ValueError", "Non-pending sale cannot be modified")
  ELSE Ok([db EXCEPT !.sales[sale_ref].delivery = line1])

ShopFrame == UNCHANGED <<med, bank, travel, bball, movie, rail, orch, school, envs>>

ModifyPendingSalePayment ==
  \E sr \in SaleRefs, i \in InstrumentIds :
    /\ LET r == modify_pending_sale_payment(shop, sr, i) IN
         /\ shop' = r.db
         /\ call' = Called("modify_pending_sale_payment", "WRITE", sr, r)
    /\ UNCHANGED rest
    /\ ShopFrame

CancelPendingSale ==
  \E sr \in SaleRefs, reason \in CancelReasons :
    /\ LET r == cancel_pending_sale(shop, sr, reason) IN
         /\ shop' = r.db
         /\ call' = Called("cancel_pending_sale", "WRITE", sr, r)
    /\ UNCHANGED rest
    /\ ShopFrame

ReturnDeliveredSaleLines ==
  \E sr \in SaleRefs, skus \in SeqsUpTo({"sku_1"}, 2), i \in InstrumentIds :
    /\ LET r == return_delivered_sale_lines(shop, sr, skus, i) IN
         /\ shop' = r.db
         /\ call' = Called("return_delivered_sale_lines", "WRITE", sr, r)
    /\ UNCHANGED rest
    /\ ShopFrame

ExchangeDeliveredSaleLines ==
  \E sr \in SaleRefs, old \in SeqsUpTo({"sku_1"}, 2), new \in {<<"sku_2">>, <<"sku_3">>, <<>>},
     i \in InstrumentIds :
    /\ LET r == exchange_delivered_sale_lines(shop, sr, old, new, i) IN
         /\ shop' = r.db
         /\ call' = Called("exchange_delivered_sale_lines", "WRITE", sr, r)
    /\ UNCHANGED rest
    /\ ShopFrame

ModifyPendingSaleDelivery ==
  \E sr \in SaleRefs, line1 \in {"1 Main St", "2 Side St"} :
    /\ LET r == modify_pending_sale_delivery(shop, sr, line1) IN
         /\ shop' = r.db
         /\ call' = Called("modify_pending_sale_delivery", "WRITE", sr, r)
    /\ UNCHANGED rest
    /\ ShopFrame

NextSales ==
  \/ ModifyPendingSaleDelivery
  \/ ModifyPendingSalePayment
  \/ CancelPendingSale
  \/ ReturnDeliveredSaleLines
  \/ ExchangeDeliveredSaleLines

(***************************************************************************)
(* Restaurant domain: src/tau2/domains/restaurant/tools.py                 *)
(***************************************************************************)
TicketRefs == {"TCKT-1", "TCKT-X"}

InstrumentRefs == {"card_1", "gift_1", "card_X"}

TipTotals == {-1, 2}

RestInitDB ==
  [service_tickets |->
     [t \in {"TCKT-1"} |->
        [guest_ref |-> "guest_1", state |-> "placed",
         charges |-> <<[kind |-> "payment", total |-> 10, instrument_ref |-> "card_1"]>>]],
   patron_registry |->
     [g \in {"guest_1"} |-> [saved_instruments |-> {"card_1", "gift_1"}]]]

\* tools.py 56-61: "" when the instrument exists, else the error
_get_instrument(db, guest_ref, instrument_ref) ==
  IF guest_ref \notin DOMAIN db.patron_registry THEN "Patron not found"
  ELSE IF instrument_ref \notin db.patron_registry[guest_ref].saved_instruments
    THEN "Payment instrument not found"
  ELSE ""

\* tools.py 235-241: a refund for every 'payment' charge
TicketRefunds(charges) ==
  LET payments == OfKind(charges, "kind", "payment") IN
    [i \in DOMAIN payments |-> [payments[i] EXCEPT !.kind = "refund"]]

\* tools.py 214-246
cancel_placed_ticket(db, ticket_ref, reason) ==
  IF ticket_ref \notin DOMAIN db.service_tickets THEN Raise(db, "ValueError", "Ticket not found")
  ELSE IF db.service_tickets[ticket_ref].state # "placed"
    THEN Raise(db, "ValueError", "Only tickets in 'placed' state can be cancelled")
  ELSE Ok([db EXCEPT !.service_tickets[ticket_ref].charges = @ \o TicketRefunds(@),
                     !.service_tickets[ticket_ref].state = "cancelled"])

\* tools.py 441-492
modify_placed_ticket_instrument(db, ticket_ref, instrument_ref) ==
  IF ticket_ref \notin DOMAIN db.service_tickets THEN Raise(db, "ValueError", "Ticket not found")
  ELSE LET ticket == db.service_tickets[ticket_ref] IN
  IF ticket.state # "placed"
    THEN Raise(db, "ValueError", "Non-placed ticket cannot be modified")
  ELSE IF _get_instrument(db, ticket.guest_ref, instrument_ref) # ""
    THEN Raise(db, "ValueError", _get_instrument(db, ticket.guest_ref, instrument_ref))
  ELSE LET payment_charges == OfKind(ticket.charges, "kind", "payment") IN
  IF Len(payment_charges) # 1
    THEN Raise(db, "ValueError", "There should be exactly one payment charge for a placed ticket")
  ELSE LET current_payment == payment_charges[1] IN
  IF current_payment.instrument_ref = instrument_ref
    THEN Raise(db, "ValueError", "The new instrument should be different from the current one")
  ELSE LET amount == current_payment.total IN
    Ok([db EXCEPT !.service_tickets[ticket_ref].charges =
          @ \o <<[kind |-> "payment", total |-> amount, instrument_ref |-> instrument_ref],
                 [kind |-> "refund", total |-> amount,
                  instrument_ref |-> current_payment.instrument_ref]>>])

\* tools.py 494-533
add_tip_to_ticket(db, ticket_ref, tip_total, instrument_ref) ==
  IF ticket_ref \notin DOMAIN db.service_tickets THEN Raise(db, "ValueError", "Ticket not found")
  ELSE LET ticket == db.service_tickets[ticket_ref] IN
  IF ticket.state = "cancelled"
    THEN Raise(db, "ValueError", "Cannot add tip to a cancelled ticket")
  ELSE IF tip_total < 0 THEN Raise(db, "ValueError", "Tip amount must be non-negative")
  ELSE IF _get_instrument(db, ticket.guest_ref, instrument_ref) # ""
    THEN Raise(db, "ValueError", _get_instrument(db, ticket.guest_ref, instrument_ref))
  ELSE Ok([db EXCEPT !.service_tickets[ticket_ref].charges =
             Append(@, [kind |-> "tip", total |-> tip_total, instrument_ref |-> instrument_ref])])

CancelPlacedTicket ==
  \E t \in TicketRefs, reason \in CancelReasons :
    /\ LET r == cancel_placed_ticket(rest, t, reason) IN
         /\ rest' = r.db
         /\ call' = Called("cancel_placed_ticket", "WRITE", t, r)
    /\ UNCHANGED shop
    /\ ShopFrame

ModifyPlacedTicketInstrument ==
  \E t \in TicketRefs, i \in InstrumentRefs :
    /\ LET r == modify_placed_ticket_instrument(rest, t, i) IN
         /\ rest' = r.db
         /\ call' = Called("modify_placed_ticket_instrument", "WRITE", t, r)
    /\ UNCHANGED shop
    /\ ShopFrame

\* room for one more tip on the ticket
TipRoom(ticket_ref) ==
  IF ticket_ref \notin DOMAIN rest.service_tickets THEN TRUE
  ELSE Len(OfKind(rest.service_tickets[ticket_ref].charges, "kind", "tip")) < MaxTips

AddTipToTicket ==
  \E t \in TicketRefs, tip \in TipTotals, i \in InstrumentRefs :
    /\ TipRoom(t)
    /\ LET r == add_tip_to_ticket(rest, t, tip, i) IN
         /\ rest' = r.db
         /\ call' = Called("add_tip_to_ticket", "WRITE", t, r)
    /\ UNCHANGED shop
    /\ ShopFrame

InitShop ==
  /\ shop = ShopInitDB
  /\ rest = RestInitDB
  /\ med = <<>> /\ bank = <<>> /\ travel = <<>>
  /\ bball = <<>> /\ movie = <<>> /\ rail = <<>> /\ orch = <<>>
  /\ school = <<>> /\ envs = <<>>
  /\ call = NoCall

NextShop ==
  \/ ModifyPendingSalePayment
  \/ CancelPendingSale
  \/ ReturnDeliveredSaleLines
  \/ CancelPlacedTicket
  \/ ModifyPlacedTicketInstrument
  \/ AddTipToTicket

SpecShop == InitShop /\ [][NextShop]_vars

(***************************************************************************)
(* Claims about the e-commerce and restaurant domains                      *)
(***************************************************************************)
\* total value of the entries of one kind
KindTotal(entries, field, kind, amount) == SumSeq(OfKind(entries, field, kind), amount)

\* C5: after a successful cancel_pending_sale / cancel_placed_ticket the
\* total value of the refund entries equals the total value of the payment
\* entries on the sale's ledger / the ticket's charges, and every entry that
\* existed before the call is still there unchanged.
C5_RefundsEqualPaymentsAfterCancel ==
  [][/\ (call'.tool = "cancel_pending_sale" /\ call'.outcome = "ok") =>
          LET before == shop.sales[call'.target].ledger
              after == shop'.sales[call'.target].ledger IN
            /\ KindTotal(after, "entry_kind", "refund", "value")
                 = KindTotal(after, "entry_kind", "payment", "value")
            /\ Len(after) >= Len(before) /\ SubSeq(after, 1, Len(before)) = before
     /\ (call'.tool = "cancel_placed_ticket" /\ call'.outcome = "ok") =>
          LET before == rest.service_tickets[call'.target].charges
              after == rest'.service_tickets[call'.target].charges IN
            /\ KindTotal(after, "kind", "refund", "total")
                 = KindTotal(after, "kind", "payment", "total")
            /\ Len(after) >= Len(before) /\ SubSeq(after, 1, Len(before)) = before]_vars

(***************************************************************************)
(* Basketball domain: src/tau2/domains/basketball/tools.py                 *)
(***************************************************************************)
GameIds == {"game_001", "game_002", "game_00X"}

GameStatus == {"scheduled", "in_progress", "final", "postponed"}

\* values offered as new_status: the four statuses and one that is none
RequestedStatus == GameStatus \cup {"cancelled"}

ScoringEventType == {"1PT", "2PT", "3PT", "FT"}

BballInitDB ==
  [games |->
     [g \in {"game_001", "game_002"} |->
        [status |-> IF g = "game_001" THEN "scheduled" ELSE "in_progress",
         home |-> [club_id |-> "club_H", score |-> 0],
         away |-> [club_id |-> "club_A", score |-> 0],
         scoring_history |-> <<>>]],
   players |-> {"player_1"},
   addresses |-> [p \in {"player_1"} |-> "Akron"]]

\* the transition table with a way out of 'final'
allowed_FinalReopens ==
  [c \in GameStatus |->
     IF c = "scheduled" THEN {"in_progress", "postponed"}
     ELSE IF c = "postponed" THEN {"scheduled"}
     ELSE IF c = "in_progress" THEN {"final"}
     ELSE {"scheduled"}]

\* tools.py 454-459
allowed ==
  [c \in GameStatus |->
     IF c = "scheduled" THEN {"in_progress", "postponed"}
     ELSE IF c = "postponed" THEN {"scheduled"}
     ELSE IF c = "in_progress" THEN {"final"}
     ELSE {}]

update_game_status_NoCheck(db, game_id, new_status) ==
  IF game_id \notin DOMAIN db.games THEN Raise(db, "ValueError", "Game not found")
  ELSE Ok([db EXCEPT !.games[game_id].status = new_status])

\* tools.py 433-466
update_game_status(db, game_id, new_status) ==
  IF game_id \notin DOMAIN db.games THEN Raise(db, "ValueError", "Game not found")
  ELSE LET current == db.games[game_id].status IN
  IF new_status = current THEN Ok(db)
  ELSE IF new_status \notin allowed[current]
    THEN Raise(db, "ValueError", "Invalid status transition")
  ELSE Ok([db EXCEPT !.games[game_id].status = new_status])

\* tools.py 500: the dict of expected points has no key '1PT'
ExpectedPoints == [t \in {"2PT", "3PT", "FT"} |-> IF t = "2PT" THEN 2 ELSE IF t = "3PT" THEN 3 ELSE 1]

\* tools.py 468-528
record_scoring_event(db, game_id, event_type, points, club_id, player_id) ==
  IF game_id \notin DOMAIN db.games THEN Raise(db, "ValueError", "Game not found")
  ELSE LET game == db.games[game_id] IN
  IF game.status # "in_progress"
    THEN Raise(db, "ValueError", "Scoring can only be recorded for games in progress")
  ELSE IF event_type \notin DOMAIN ExpectedPoints THEN Raise(db, "KeyError", event_type)
  ELSE IF points # ExpectedPoints[event_type]
    THEN Raise(db, "ValueError", "Points do not match the event type")
  ELSE IF club_id \notin {game.home.club_id, game.away.club_id}
    THEN Raise(db, "ValueError", "Club is not part of this game")
  ELSE IF player_id \notin db.players THEN Raise(db, "ValueError", "Player not found")
  ELSE LET event == [event_type |-> event_type, points |-> points,
                     club_id |-> club_id, player_id |-> player_id]
           db1 == [db EXCEPT !.games[game_id].scoring_history = Append(@, event)] IN
    IF club_id = game.home.club_id
      THEN Ok([db1 EXCEPT !.games[game_id].home.score = @ + points])
      ELSE Ok([db1 EXCEPT !.games[game_id].away.score = @ + points])

\* tools.py 399-431: the address is modelled by its city
modify_player_address(db, player_id, city) ==
  IF player_id \notin db.players THEN Raise(db, "ValueError", "Player not found")
  ELSE Ok([db EXCEPT !.addresses[player_id] = city])

BballFrame == UNCHANGED <<med, bank, travel, shop, rest, movie, rail, orch, school, envs>>

\* the call record of update_game_status also keeps the requested status and
\* the message of the exception
UpdateGameStatus ==
  \E g \in GameIds, n \in RequestedStatus :
    /\ LET r == update_game_status(bball, g, n) IN
         /\ bball' = r.db
         /\ call' = Called("update_game_status", "WRITE", g, r)
                      @@ [requested |-> n, err |-> r.err]
    /\ BballFrame

EventsRoom(game_id) ==
  IF game_id \notin DOMAIN bball.games THEN TRUE
  ELSE Len(bball.games[game_id].scoring_history) < MaxEvents

RecordScoringEvent ==
  \E g \in GameIds, t \in {"1PT", "2PT", "FT"}, pts \in {1, 2},
     c \in {"club_H", "club_X"}, pl \in {"player_1", "player_X"} :
    /\ EventsRoom(g)
    /\ LET r == record_scoring_event(bball, g, t, pts, c, pl) IN
         /\ bball' = r.db
         /\ call' = Called("record_scoring_event", "WRITE", g, r)
                      @@ [event_type |-> t, points |-> pts, club_id |-> c]
    /\ BballFrame

ModifyPlayerAddress ==
  \E pl \in {"player_1", "player_X"}, city \in {"Akron", "Boise"} :
    /\ LET r == modify_player_address(bball, pl, city) IN
         /\ bball' = r.db
         /\ call' = Called("modify_player_address", "WRITE", pl, r)
    /\ BballFrame

InitBball ==
  /\ bball = BballInitDB
  /\ med = <<>> /\ bank = <<>> /\ travel = <<>> /\ shop = <<>> /\ rest = <<>>
  /\ movie = <<>> /\ rail = <<>> /\ orch = <<>>
  /\ school = <<>> /\ envs = <<>>
  /\ call = NoCall

NextBball ==
  \/ UpdateGameStatus
  \/ RecordScoringEvent
  \/ ModifyPlayerAddress

SpecBball == InitBball /\ [][NextBball]_vars

(***************************************************************************)
(* Claims about the basketball domain                                      *)
(***************************************************************************)
\* an update_game_status call on an existing game has just been made
StatusCall == call'.tool = "update_game_status" /\ call'.target \in DOMAIN bball.games

C19_FinalGameIsFrozen ==
  [][\A g \in DOMAIN bball.games :
       bball.games[g].status = "final" =>
         /\ bball'.games[g] = bball.games[g]
         /\ (call'.tool = "record_scoring_event" /\ call'.target = g)
              => call'.outcome = "ValueError"
         /\ (call'.tool = "update_game_status" /\ call'.target = g
               /\ call'.requested # "final") => call'.outcome = "ValueError"]_vars

C19_Witness ==
  /\ call.tool = "record_scoring_event" /\ call.outcome = "ValueError"
  /\ call.target \in DOMAIN bball.games
  /\ bball.games[call.target].status = "final"
  /\ Len(bball.games[call.target].scoring_history) > 0

(***************************************************************************)
(* READ and GENERIC tools of the bank domain (bank/tools.py 108-390) and   *)
(* the GENERIC price_preview of the movie domain (movie/tools.py 296-343)  *)
(***************************************************************************)
Expressions == {"2 + 2", "1 / 0", "import os"}

\* tools.py 108-124: the character filter, then eval of the arithmetic
calculate(db, expression) ==
  IF expression \notin {"2 + 2", "1 / 0"}
    THEN Raise(db, "ValueError", "Invalid characters in expression")
  ELSE IF expression = "1 / 0" THEN Raise(db, "ZeroDivisionError", "division by zero")
  ELSE OkRet(db, <<"4.0">>)

\* tools.py 126-141
transfer_to_human_agents(db, summary) == OkRet(db, <<"Transfer successful">>)

\* str.lower on the e-mail addresses offered
Lower(e) == IF e = "C1@BANK.TEST" THEN "c1@bank.test" ELSE e

\* tools.py 146-163
find_client_id_by_email(db, email) ==
  LET hits == {c \in DOMAIN db.clients : Lower(db.clients[c].email) = Lower(email)} IN
    IF hits = {} THEN Raise(db, "ValueError", "Client not found")
    ELSE OkRet(db, <<CHOOSE c \in hits : TRUE>>)

\* tools.py 165-179
get_client_details(db, client_id) ==
  IF client_id \notin DOMAIN db.clients THEN Raise(db, "ValueError", "Client not found")
  ELSE OkRet(db, <<db.clients[client_id]>>)

\* tools.py 55-59
_get_account_by_id(db, account_id) ==
  {c \in DOMAIN db.clients : account_id \in DOMAIN db.clients[c].accounts}

\* tools.py 181-196
get_account_details(db, account_id) ==
  IF _get_account_by_id(db, account_id) = {} THEN Raise(db, "ValueError", "Account not found")
  ELSE LET c == CHOOSE x \in _get_account_by_id(db, account_id) : TRUE IN
    OkRet(db, <<db.clients[c].accounts[account_id]>>)

\* tools.py 215-229
get_loan_details(db, loan_id) ==
  IF loan_id \notin DOMAIN db.loans THEN Raise(db, "ValueError", "Loan not found")
  ELSE OkRet(db, <<db.loans[loan_id]>>)

\* tools.py 231-245
get_beneficiary_details(db, beneficiary_id) ==
  IF beneficiary_id \notin DOMAIN db.beneficiaries
    THEN Raise(db, "ValueError", "Beneficiary not found")
  ELSE OkRet(db, <<db.beneficiaries[beneficiary_id]>>)

\* tools.py 247-268: the summary dict that is dumped as JSON
list_client_accounts(db, client_id) ==
  IF client_id \notin DOMAIN db.clients THEN Raise(db, "ValueError", "Client not found")
  ELSE LET accounts == db.clients[client_id].accounts IN
    OkRet(db, <<[a \in DOMAIN accounts |->
                   [type |-> accounts[a].type, status |-> accounts[a].status,
                    currency |-> accounts[a].currency]]>>)

\* tools.py 270-293: the ids of the client's beneficiaries that exist
list_client_beneficiaries(db, client_id) ==
  IF client_id \notin DOMAIN db.clients THEN Raise(db, "ValueError", "Client not found")
  ELSE LET ids == db.clients[client_id].beneficiary_ids IN
    OkRet(db, <<{ids[i] : i \in {j \in DOMAIN ids : ids[j] \in DOMAIN db.beneficiaries}}>>)

\* txs.sort(key=timestamp, reverse=True) on a local list: later transactions
\* (larger ids) first
RECURSIVE SortedDesc(_, _)
SortedDesc(txs, ids) ==
  IF ids = {} THEN <<>>
  ELSE LET m == CHOOSE x \in ids : \A y \in ids : y <= x IN
    <<txs[m]>> \o SortedDesc(txs, ids \ {m})

\* the slice sq[:n] for n >= 0
Take(sq, n) == SubSeq(sq, 1, IF n > Len(sq) THEN Len(sq) ELSE n)

get_recent_transactions_Pop(db, account_id, limit) ==
  IF _get_account_by_id(db, account_id) = {} THEN Raise(db, "ValueError", "Account not found")
  ELSE LET ids == {t \in DOMAIN db.transactions : db.transactions[t].account_id = account_id}
           txs == SortedDesc(db.transactions, ids)
           kept == Take(txs, Max(0, limit))
           gone == {t \in ids : ~InSeq(db.transactions[t], kept)} IN
    OkRet([db EXCEPT !.transactions = [t \in (DOMAIN @) \ gone |-> @[t]]], kept)

\* tools.py 295-317
get_recent_transactions(db, account_id, limit) ==
  IF _get_account_by_id(db, account_id) = {} THEN Raise(db, "ValueError", "Account not found")
  ELSE LET ids == {t \in DOMAIN db.transactions : db.transactions[t].account_id = account_id}
           txs == SortedDesc(db.transactions, ids) IN
    OkRet(db, Take(txs, Max(0, limit)))

\* tools.py 319-390 with the date, status and merchant filters left at None
search_transactions(db, client_id, account_id, min_amount, transaction_type) ==
  IF client_id \notin DOMAIN db.clients THEN Raise(db, "ValueError", "Client not found")
  ELSE IF account_id \notin DOMAIN db.clients[client_id].accounts
    THEN Raise(db, "ValueError", "Account not found for this client")
  ELSE LET ids == {t \in DOMAIN db.transactions :
                     /\ db.transactions[t].account_id = account_id
                     /\ (min_amount # <<>> => db.transactions[t].amount >= min_amount[1])
                     /\ (transaction_type # "" => db.transactions[t].type = transaction_type)} IN
    OkRet(db, SortedDesc(db.transactions, ids))

\* money of the movie domain is counted in tenths of a cent
MovieInitDB ==
  [theaters |->
     [th \in {"TH1"} |->
        [tax_rate_percent |-> 10, booking_fee |-> 500,
         auditoriums |-> [au \in {"AU1"} |-> {"A1", "A2", "A3", "A4", "A5"}],
         shows |->
           [sh \in {"SH1", "SH2"} |->
              [status |-> IF sh = "SH1" THEN "scheduled" ELSE "cancelled",
               auditorium_id |-> "AU1",
               price_schema |-> [adult |-> 10000, child |-> 5000, senior |-> 8000,
                                 convenience_fee |-> 1000]]]]],
   bookings |->
     [b \in {"BK1"} |->
        [theater_id |-> "TH1", show_id |-> "SH1", status |-> "confirmed", seats |-> {"A1"},
         canceled_at |-> "", grand_total |-> 12600, amount_paid |-> 12600,
         amount_due |-> 0,
         payment_history |-> <<[payment_id |-> "PAY1", amount |-> 12600]>>]]]

\* movie/tools.py 109-119
_booked_seats_for_show(db, theater_id, show_id) ==
  UNION {db.bookings[b].seats :
           b \in {x \in DOMAIN db.bookings :
                    /\ db.bookings[x].theater_id = theater_id
                    /\ db.bookings[x].show_id = show_id
                    /\ db.bookings[x].status = "confirmed"}}

\* movie/tools.py 145-173: price, convenience fee and tax of every seat
_build_booked_seats(show, theater, seat_specs) ==
  [i \in DOMAIN seat_specs |->
     LET price == show.price_schema[seat_specs[i].ticket_type]
         fee == show.price_schema.convenience_fee IN
       [seat_id |-> seat_specs[i].seat_id, price |-> Round2(price),
        convenience_fee |-> Round2(fee),
        tax |-> Round2(((price + fee) * theater.tax_rate_percent) \div 100)]]

\* movie/tools.py 296-343, called without concessions
price_preview(db, theater_id, show_id, seats) ==
  IF theater_id \notin DOMAIN db.theaters THEN Raise(db, "ValueError", "Theater not found")
  ELSE LET theater == db.theaters[theater_id] IN
  IF show_id \notin DOMAIN theater.shows THEN Raise(db, "ValueError", "Show not found")
  ELSE LET show == theater.shows[show_id] IN
  IF show.status # "scheduled"
    THEN Raise(db, "ValueError", "Show is not available for booking")
  ELSE IF show.auditorium_id \notin DOMAIN theater.auditoriums
    THEN Raise(db, "ValueError", "Auditorium not found")
  ELSE LET requested_seat_ids == {seats[i].seat_id : i \in DOMAIN seats} IN
  IF requested_seat_ids \ theater.auditoriums[show.auditorium_id] # {}
    THEN Raise(db, "ValueError", "Unknown seat ids")
  ELSE IF requested_seat_ids \cap _booked_seats_for_show(db, theater_id, show_id) # {}
    THEN Raise(db, "ValueError", "Seats not available")
  ELSE IF \E i \in DOMAIN seats : seats[i].ticket_type \notin {"adult", "child", "senior"}
    THEN Raise(db, "ValueError", "Unsupported ticket type")
  ELSE LET booked_seats == _build_booked_seats(show, theater, seats)
           tickets_subtotal == SumSeq(booked_seats, "price")
           fees_total == SumSeq(booked_seats, "convenience_fee") + theater.booking_fee
           tax_total == SumSeq(booked_seats, "tax") IN
    OkRet(db, <<[tickets_subtotal |-> tickets_subtotal, fees_total |-> fees_total,
                 tax_total |-> tax_total,
                 grand_total |-> tickets_subtotal + fees_total + tax_total,
                 ticket_count |-> Len(booked_seats)]>>)

\* a call of a bank tool that is not tagged WRITE
BankReadCall(tool, cls, r) ==
  /\ bank' = r.db
  /\ call' = Called(tool, cls, "", r)
  /\ BankFrame

Calculate ==
  \E e \in Expressions : BankReadCall("calculate", "GENERIC", calculate(bank, e))

TransferToHumanAgents ==
  BankReadCall("transfer_to_human_agents", "GENERIC", transfer_to_human_agents(bank, "summary"))

FindClientIdByEmail ==
  \E e \in {"C1@BANK.TEST", "c2@bank.test", "nobody@bank.test"} :
    BankReadCall("find_client_id_by_email", "READ", find_client_id_by_email(bank, e))

GetClientDetails ==
  \E c \in ClientIds : BankReadCall("get_client_details", "READ", get_client_details(bank, c))

GetAccountDetails ==
  \E a \in AccountIds \cup {"AX"} :
    BankReadCall("get_account_details", "READ", get_account_details(bank, a))

GetLoanDetails ==
  \E l \in {"L1", "LX"} : BankReadCall("get_loan_details", "READ", get_loan_details(bank, l))

GetBeneficiaryDetails ==
  \E b \in {"BN1", "BNX"} :
    BankReadCall("get_beneficiary_details", "READ", get_beneficiary_details(bank, b))

ListClientAccounts ==
  \E c \in ClientIds : BankReadCall("list_client_accounts", "READ", list_client_accounts(bank, c))

ListClientBeneficiaries ==
  \E c \in ClientIds :
    BankReadCall("list_client_beneficiaries", "READ", list_client_beneficiaries(bank, c))

GetRecentTransactions ==
  \E a \in AccountIds \cup {"AX"}, limit \in {-1, 1, 10} :
    BankReadCall("get_recent_transactions", "READ", get_recent_transactions(bank, a, limit))

SearchTransactions ==
  \E c \in {"C1", "CX"}, a \in {"A1", "B1"}, m \in {<<>>, <<30>>}, t \in {"", "payment"} :
    BankReadCall("search_transactions", "READ", search_transactions(bank, c, a, m, t))

SeatSpecs ==
  { [seat_id |-> "A1", ticket_type |-> "adult"], [seat_id |-> "A2", ticket_type |-> "child"],
    [seat_id |-> "A2", ticket_type |-> "vip"], [seat_id |-> "Z9", ticket_type |-> "adult"] }

PricePreview ==
  \E th \in {"TH1", "THX"}, sh \in {"SH1", "SH2", "SHX"}, seats \in SeqsUpTo(SeatSpecs, 2) :
    /\ LET r == price_preview(movie, th, sh, seats) IN
         /\ movie' = r.db
         /\ call' = Called("price_preview", "GENERIC", "", r)
    /\ UNCHANGED <<med, bank, travel, shop, rest, bball, rail, orch, school, envs>>

InitReads ==
  /\ bank = BankInitDB
  /\ movie = MovieInitDB
  /\ med = <<>> /\ travel = <<>> /\ shop = <<>> /\ rest = <<>>
  /\ bball = <<>> /\ rail = <<>> /\ orch = <<>>
  /\ school = <<>> /\ envs = <<>>
  /\ call = NoCall

NextReads ==
  \/ NextBank
  \/ Calculate
  \/ TransferToHumanAgents
  \/ FindClientIdByEmail
  \/ GetClientDetails
  \/ GetAccountDetails
  \/ GetLoanDetails
  \/ GetBeneficiaryDetails
  \/ ListClientAccounts
  \/ ListClientBeneficiaries
  \/ GetRecentTransactions
  \/ SearchTransactions
  \/ PricePreview

SpecReads == InitReads /\ [][NextReads]_vars

RESPOND_ACTION_NAME == "respond"

\* the JSON objects an agent may put between <json> and </json>
PRespond == [name |-> "respond", arguments |-> [content |-> "hello"]]

PTool == [name |-> "get_details", arguments |-> [id |-> "X1"]]

PNoName == [arguments |-> [content |-> "hello"]]

PRespondNoContent == [name |-> "respond", arguments |-> [id |-> "X1"]]

PToolNoArguments == [name |-> "get_details"]

NotJson == [raw |-> "{oops"]

\* the payload lists of a reply text: one action, none, two, and the
\* malformed ones
PayloadLists ==
  {<<PRespond>>, <<PTool>>, <<>>, <<PRespond, PTool>>, <<NotJson>>, <<PNoName>>,
   <<PRespondNoContent>>, <<PToolNoArguments>>}

Texts == {[prose |-> pr, json |-> js] : pr \in {"", "Sure."}, js \in PayloadLists}

NoText == [prose |-> "", json |-> <<>>]

NoReply == [kind |-> "none", context_id |-> "none", text_parts |-> 0, text |-> NoText]

\* what a2a_send_message can hand back: a success response with a Message,
\* whose context_id is optional and which has one text part or two, or
\* anything that is not such a response
Replies ==
  {[kind |-> "message", context_id |-> c, text_parts |-> 1, text |-> t] :
      c \in {"none", "ctx_A", "ctx_B"}, t \in Texts}
    \cup {[kind |-> "message", context_id |-> "ctx_A", text_parts |-> 2, text |-> NoText],
          [kind |-> "error", context_id |-> "none", text_parts |-> 0, text |-> NoText]}

Rewards == {0, 50, 100}

NoInfo == [simulation_run |-> <<>>, reward_info |-> <<>>]

\* info of a terminating step: the serialized SimulationRun (whose own
\* reward_info is nullable) and the serialized RewardInfo, each possibly None
FinalInfos ==
  {[simulation_run |-> s, reward_info |-> r] :
      s \in {<<>>, <<[reward_info |-> <<>>]>>, <<[reward_info |-> <<100>>]>>},
      r \in {<<>>} \cup {<<x>> : x \in Rewards}}

NoAction == [kind |-> "none", text |-> "", json |-> NotJson]

OrchInit ==
  [pc |-> "while", error |-> "none", context_id |-> "none",
   terminated |-> FALSE, truncated |-> FALSE,
   next_green_message |-> 0, info |-> NoInfo, simulation_run |-> <<>>,
   reply |-> NoReply, action |-> NoAction, outcomes |-> <<>>,
   sent |-> 0, request_context_id |-> "none", request_message |-> 0,
   replies |-> 0, first_context_id |-> "none", env_steps |-> 0, env_over |-> FALSE]

\* parse_tags: the results it may give for a text, as the value under the
\* key "json" of the dictionary it returns (<<>> when there is no such key);
\* a dictionary has one value per key, so of two payloads one is kept
parse_tags(text) ==
  IF Len(text.json) = 0 THEN {<<>>}
  ELSE {<<text.json[1]>>, <<text.json[Len(text.json)]>>}

\* Environment.step: the (terminated, truncated, info) results it may return;
\* the empty set stands for the contract violation of a step after the end
env_step(env_steps, env_over, action) ==
  IF env_over THEN {}
  ELSE IF env_steps + 1 >= MaxTurns
    THEN {[terminated |-> FALSE, truncated |-> TRUE, info |-> NoInfo]}
           \cup (IF action.kind = "text"
                   THEN {[terminated |-> TRUE, truncated |-> FALSE, info |-> i] :
                           i \in FinalInfos}
                   ELSE {})
  ELSE {[terminated |-> FALSE, truncated |-> FALSE, info |-> NoInfo]}
         \cup {[terminated |-> TRUE, truncated |-> FALSE, info |-> i] : i \in FinalInfos}

OrchFrame == UNCHANGED <<med, bank, travel, shop, rest, bball, movie, rail, call, school, envs>>

\* an exception leaves ask_agent_to_solve and execute, which catch nothing
Abort(o, exc) == [o EXCEPT !.pc = "aborted", !.error = exc]

\* agent.py 92 and 137-138: while not terminated / if terminated: break
LoopTest ==
  /\ orch.pc = "while"
  /\ orch' = [orch EXCEPT !.pc = IF orch.terminated THEN "finalize" ELSE "send"]
  /\ OrchFrame

\* agent.py 96-98: next_green_message goes out with the current context_id
SendMessage ==
  /\ orch.pc = "send"
  /\ orch' = [orch EXCEPT !.pc = "await", !.sent = @ + 1,
                          !.request_context_id = orch.context_id,
                          !.request_message = orch.next_green_message]
  /\ OrchFrame

\* agent.py 96-99: the reply of the agent under test arrives
ReceiveReply ==
  \E reply \in Replies :
    /\ orch.pc = "await"
    /\ orch' = [orch EXCEPT !.pc = "check", !.reply = reply, !.replies = @ + 1,
                            !.first_context_id =
                                IF orch.replies = 0 THEN reply.context_id ELSE @]
    /\ OrchFrame

\* agent.py 100-117: the assertions on the response, its context_id and its
\* text parts
CheckReply ==
  /\ orch.pc = "check"
  /\ orch' =
       IF orch.reply.kind # "message" THEN Abort(orch, "AssertionError")
       ELSE IF orch.context_id # "none" /\ orch.context_id # orch.reply.context_id
         THEN Abort(orch, "AssertionError")
       ELSE LET o == [orch EXCEPT !.context_id = orch.reply.context_id] IN
              IF orch.reply.text_parts # 1 THEN Abort(o, "AssertionError")
              ELSE [o EXCEPT !.pc = "decode"]
  /\ OrchFrame

\* DecodeAction with the two cases exchanged
DecodeAction_Swapped(action_dict) ==
  IF action_dict.name # RESPOND_ACTION_NAME
    THEN [kind |-> "text", text |-> "", json |-> NotJson]
    ELSE [kind |-> "json", text |-> "", json |-> action_dict]

\* agent.py 125-129: the action made of the decoded payload
DecodeAction(action_dict) ==
  IF action_dict.name = RESPOND_ACTION_NAME
    THEN [kind |-> "text", text |-> action_dict.arguments.content, json |-> NotJson]
    ELSE [kind |-> "json", text |-> "", json |-> action_dict]

\* agent.py 118-129: parse_tags, the "json" tag, json.loads and the action
DecodeReply ==
  /\ orch.pc = "decode"
  /\ \E white_tags \in parse_tags(orch.reply.text) :
       orch' =
         IF white_tags = <<>> THEN Abort(orch, "KeyError")
         ELSE LET action_dict == white_tags[1] IN
           IF action_dict = NotJson THEN Abort(orch, "JSONDecodeError")
           ELSE IF "name" \notin DOMAIN action_dict THEN Abort(orch, "KeyError")
           ELSE IF action_dict.name = RESPOND_ACTION_NAME
                   /\ ("arguments" \notin DOMAIN action_dict
                         \/ "content" \notin DOMAIN action_dict.arguments)
             THEN Abort(orch, "KeyError")
           ELSE [orch EXCEPT !.pc = "step", !.action = DecodeAction(action_dict)]
  /\ OrchFrame

\* EnvStep that keeps the previous next_green_message
EnvStep_StaleMessage ==
  /\ orch.pc = "step"
  /\ LET results == env_step(orch.env_steps, orch.env_over, orch.action) IN
       IF results = {} THEN orch' = Abort(orch, "EnvError")
       ELSE \E res \in results :
              orch' = [orch EXCEPT !.pc = "while", !.env_steps = @ + 1,
                                   !.terminated = res.terminated,
                                   !.truncated = res.truncated,
                                   !.info = res.info,
                                   !.env_over = res.terminated \/ res.truncated]
  /\ OrchFrame

\* agent.py 131-134
EnvStep ==
  /\ orch.pc = "step"
  /\ LET results == env_step(orch.env_steps, orch.env_over, orch.action) IN
       IF results = {} THEN orch' = Abort(orch, "EnvError")
       ELSE \E res \in results :
              orch' = [orch EXCEPT !.pc = "while", !.env_steps = @ + 1,
                                   !.next_green_message = orch.env_steps + 1,
                                   !.terminated = res.terminated,
                                   !.truncated = res.truncated,
                                   !.info = res.info,
                                   !.env_over = res.terminated \/ res.truncated]
  /\ OrchFrame

\* agent.py 139-146
Finalize ==
  /\ orch.pc = "finalize"
  /\ orch' =
       IF orch.info.reward_info # <<>>
         THEN IF orch.info.simulation_run = <<>> THEN Abort(orch, "AttributeError")
              ELSE [orch EXCEPT !.pc = "returned",
                                !.simulation_run =
                                    <<[reward_info |-> orch.info.reward_info]>>]
         ELSE [orch EXCEPT !.pc = "returned", !.simulation_run = orch.info.simulation_run]
  /\ OrchFrame

\* agent.py 179-190: execute with the result res of ask_agent_to_solve
EmitSummary ==
  /\ orch.pc = "returned"
  /\ orch' =
       IF orch.simulation_run = <<>> THEN Abort(orch, "AttributeError")
       ELSE IF orch.simulation_run[1].reward_info = <<>> THEN Abort(orch, "AttributeError")
       ELSE [orch EXCEPT !.pc = "finished",
                         !.outcomes = Append(@, [success |->
                                         orch.simulation_run[1].reward_info[1] = 100])]
  /\ OrchFrame

InitOrch ==
  /\ orch = OrchInit
  /\ med = <<>> /\ bank = <<>> /\ travel = <<>> /\ shop = <<>> /\ rest = <<>>
  /\ bball = <<>> /\ movie = <<>> /\ rail = <<>>
  /\ school = <<>> /\ envs = <<>>
  /\ call = NoCall

NextOrch ==
  \/ LoopTest
  \/ SendMessage
  \/ ReceiveReply
  \/ CheckReply
  \/ DecodeReply
  \/ EnvStep
  \/ Finalize
  \/ EmitSummary

SpecOrch == InitOrch /\ [][NextOrch]_vars

(***************************************************************************)
(* Claims about the evaluation loop                                        *)
(***************************************************************************)
\* C9: the conversation identifier is the one of the first reply: a reply
\* that is decoded or passed on to env.step carries the identifier of the
\* first reply (a reply with another identifier aborts the run before), and
\* every request after the first is sent with that identifier.
C9_SingleConversationId ==
  /\ orch.pc \in {"decode", "step"} => orch.reply.context_id = orch.first_context_id
  /\ orch.sent >= 2 => orch.request_context_id = orch.first_context_id

\* C10: once env.step has returned terminated or truncated, no further
\* message is sent to the agent.
C10_LoopStopsOnTerminatedOrTruncated ==
  [][(orch.terminated \/ orch.truncated) => orch'.sent = orch.sent]_vars

\* C11: a reply with two <json> payloads is rejected: it never gets as far as
\* env.step, and the run it aborts ends with one outcome whose success is
\* false.
C11_TwoActionsRejected ==
  Len(orch.reply.text.json) = 2 =>
    /\ orch.pc \in {"check", "decode", "aborted"}
    /\ orch.pc = "aborted" => orch.outcomes = <<[success |-> FALSE]>>

\* the exceptions by which ask_agent_to_solve reports a protocol violation
ProtocolErrors == {"AssertionError", "KeyError", "JSONDecodeError"}

\* C12: a run that has ended has exactly one outcome record, and the outcome
\* of a run ended by a protocol violation has success = false.
C12_EveryRunHasOneOutcome ==
  orch.pc \in {"aborted", "finished"} =>
    /\ Len(orch.outcomes) = 1
    /\ orch.error \in ProtocolErrors => ~orch.outcomes[1].success

\* the reward of the run as the last info reports it
RunReward ==
  IF orch.info.reward_info # <<>> THEN orch.info.reward_info
  ELSE IF orch.info.simulation_run # <<>> THEN orch.info.simulation_run[1].reward_info
  ELSE <<>>

\* C13: a run whose environment reported terminated ends with exactly one
\* 'Finished' summary whose success flag says whether the reward is 1, also
\* when the last info has no RewardInfo or no SimulationRun.
C13_TerminatedRunIsSummarized ==
  (orch.terminated /\ orch.pc \in {"aborted", "finished"}) =>
    /\ Len(orch.outcomes) = 1
    /\ orch.outcomes[1].success <=> (RunReward = <<100>>)

\* the payloads of the reply being processed, as a set
ReplyPayloads == {orch.reply.text.json[i] : i \in 1..Len(orch.reply.text.json)}

\* C14: the loop alternates strictly: at most one message is outstanding and
\* at most one action; a message is sent only when every reply has been
\* stepped; env.step is called with the action of the reply just received;
\* the first message is the briefing and message k+1 is the observation of
\* step k.
C14_StrictAlternation ==
  /\ orch.sent - orch.replies \in {0, 1}
  /\ orch.replies - orch.env_steps \in {0, 1}
  /\ orch.pc = "send" => (orch.sent = orch.replies /\ orch.replies = orch.env_steps)
  /\ orch.pc = "await" => (orch.sent = orch.replies + 1 /\ orch.replies = orch.env_steps)
  /\ orch.pc = "step" =>
       /\ orch.sent = orch.replies /\ orch.env_steps = orch.replies - 1
       /\ \E p \in ReplyPayloads : "name" \in DOMAIN p /\ orch.action = DecodeAction(p)
  /\ orch.sent >= 1 => orch.request_message = orch.sent - 1

C14_Witness ==
  orch.pc = "await" /\ orch.sent = 3 /\ orch.request_message = 2

\* C15: the action handed to env.step is the content of a 'respond' payload
\* as free text, and the whole payload as JSON for every other name; the
\* prose around the payload is not part of it.
C15_DecodedAction ==
  orch.pc = "step" =>
    /\ \E p \in ReplyPayloads :
         /\ "name" \in DOMAIN p
         /\ IF p.name = "respond"
              THEN orch.action.kind = "text" /\ orch.action.text = p.arguments.content
              ELSE orch.action.kind = "json" /\ orch.action.json = p
    /\ orch.reply.text.prose # "" => orch.action.text # orch.reply.text.prose

C15_Witness ==
  /\ orch.pc = "step" /\ orch.reply.text.prose = "Sure."
  /\ orch.action.kind = "text" /\ orch.action.text = "hello"

(***************************************************************************)
(* Railway domain: src/tau2/domains/railway/tools.py                       *)
(* Prices and payments are in cents, wallet balances in whole dollars.     *)
(***************************************************************************)
NewReservationIds == <<"TRN001", "TRN002", "TRN003">>

NewPnrs == <<"PNR1AA", "PNR2BB", "PNR3CC">>

TripType == {"one_way", "round_trip", "multi_city"}

RailInitDB ==
  [users |->
     [u \in {"U1"} |->
        [membership |-> "gold",
         payment_methods |->
           [pm \in {"card_1", "wallet_1"} |->
              IF pm = "card_1" THEN [source |-> "credit_card", amount |-> 0]
                               ELSE [source |-> "wallet", amount |-> 150]],
         reservations |-> <<"RES0">>]],
   reservations |->
     [r \in {"RES0"} |->
        [reservation_id |-> "RES0", user_id |-> "U1", pnr |-> "PNR0ZZ",
         trip_type |-> "one_way", status |-> "confirmed",
         trains |-> <<[train_number |-> "TR1", date |-> "D1", price |-> 40]>>,
         passengers |-> 1,
         payment_history |-> <<[payment_id |-> "card_1", amount |-> 3600]>>,
         total_bags |-> 1, bikes |-> 0, insurance |-> "no"]],
   trains |->
     [t \in {"TR1"} |->
        [service_type |-> "regional",
         dates |-> [dd \in {"D1", "D2"} |-> IF dd = "D1" THEN "on_time" ELSE "cancelled"]]]]

\* railway/tools.py 96-101: "" when the three ids are taken
_get_new_reservation_id(db) ==
  LET free == {i \in DOMAIN NewReservationIds :
                 NewReservationIds[i] \notin DOMAIN db.reservations} IN
    IF free = {} THEN ""
    ELSE NewReservationIds[CHOOSE i \in free : \A j \in free : i <= j]

\* railway/tools.py 103-110: "" when the three PNRs are taken
_get_new_pnr(db) ==
  LET used == {db.reservations[r].pnr : r \in DOMAIN db.reservations}
      free == {i \in DOMAIN NewPnrs : NewPnrs[i] \notin used} IN
    IF free = {} THEN "" ELSE NewPnrs[CHOOSE i \in free : \A j \in free : i <= j]

\* railway/tools.py 123-133: dollars per passenger and segment
_compute_segment_price(service_type, travel_class) ==
  LET base_by_service ==
        [sv \in {"high_speed", "express", "regional"} |->
           IF sv = "high_speed" THEN [sleeper |-> 120, ac_2_tier |-> 90, first_class |-> 150]
           ELSE IF sv = "express" THEN [sleeper |-> 80, ac_2_tier |-> 65, first_class |-> 110]
           ELSE [sleeper |-> 50, ac_2_tier |-> 40, first_class |-> 75]] IN
    base_by_service[service_type][travel_class]

\* railway/tools.py 135-144: on an amount in dollars, the result in cents
_apply_membership_discount(amount, membership) ==
  LET rate == IF membership = "gold" THEN 10 ELSE IF membership = "silver" THEN 5 ELSE 0 IN
    amount * (100 - rate)

\* railway/tools.py 322-346: "" when every train can be booked, else the error
RECURSIVE TrainsError(_, _, _)
TrainsError(db, trains, i) ==
  IF i > Len(trains) THEN ""
  ELSE IF trains[i].train_number \notin DOMAIN db.trains THEN "Train not found"
  ELSE IF trains[i].date \notin DOMAIN db.trains[trains[i].train_number].dates
    THEN "Train not found on date"
  ELSE IF db.trains[trains[i].train_number].dates[trains[i].date] = "cancelled"
    THEN "Train is cancelled"
  ELSE TrainsError(db, trains, i + 1)

\* railway/tools.py 365-375: "" when every payment passes, else the error
RECURSIVE RailPaymentsError(_, _, _)
RailPaymentsError(methods, payment_methods, i) ==
  IF i > Len(payment_methods) THEN ""
  ELSE LET pay == payment_methods[i] IN
    IF pay.payment_id \notin DOMAIN methods THEN "Payment method not found"
    ELSE IF methods[pay.payment_id].source = "wallet" /\ pay.amount % 100 # 0
      THEN "Wallet payments must be in whole dollars"
    ELSE IF methods[pay.payment_id].source = "wallet"
            /\ methods[pay.payment_id].amount < pay.amount \div 100
      THEN "Not enough balance in wallet"
    ELSE RailPaymentsError(methods, payment_methods, i + 1)

\* railway/tools.py 384-388
RECURSIVE DeductWallets(_, _, _)
DeductWallets(methods, payment_methods, i) ==
  IF i > Len(payment_methods) THEN methods
  ELSE LET pay == payment_methods[i]
           m1 == IF methods[pay.payment_id].source = "wallet"
                   THEN [methods EXCEPT ![pay.payment_id].amount = @ - pay.amount \div 100]
                   ELSE methods IN
         DeductWallets(m1, payment_methods, i + 1)

\* railway/tools.py 278-425
book_train_reservation(db, user_id, trip_type, travel_class, trains, num_pax, payment_methods, total_bags, bikes, insurance) ==
  IF user_id \notin DOMAIN db.users THEN Raise(db, "ValueError", "User not found")
  ELSE LET user == db.users[user_id]
           reservation_id == _get_new_reservation_id(db)
           pnr == _get_new_pnr(db) IN
  IF reservation_id = "" THEN Raise(db, "ValueError", "Too many reservations")
  ELSE IF pnr = "" THEN Raise(db, "ValueError", "Too many PNRs")
  ELSE IF TrainsError(db, trains, 1) # "" THEN Raise(db, "ValueError", TrainsError(db, trains, 1))
  ELSE LET segments ==
             [i \in DOMAIN trains |->
                [train_number |-> trains[i].train_number, date |-> trains[i].date,
                 price |-> _compute_segment_price(
                             db.trains[trains[i].train_number].service_type, travel_class)]]
           fare_total == SumSeq(segments, "price") * num_pax
           fare_total_after_discount == _apply_membership_discount(fare_total, user.membership)
           insurance_fee == IF insurance = "yes" THEN 20 * num_pax ELSE 0
           bags_fee == 15 * Max(0, total_bags - num_pax)
           bikes_fee == 10 * bikes
           total_price == fare_total_after_discount
                            + 100 * (insurance_fee + bags_fee + bikes_fee)
           pay_error == RailPaymentsError(user.payment_methods, payment_methods, 1) IN
  IF pay_error # "" THEN Raise(db, "ValueError", pay_error)
  ELSE IF SumSeq(payment_methods, "amount") # total_price
    THEN Raise(db, "ValueError", "Payment amount does not add up")
  ELSE LET db1 == [db EXCEPT !.users[user_id].payment_methods =
                                 DeductWallets(@, payment_methods, 1)]
           reservation ==
             [reservation_id |-> reservation_id, user_id |-> user_id, pnr |-> pnr,
              trip_type |-> trip_type, status |-> "confirmed", trains |-> segments,
              passengers |-> num_pax, payment_history |-> payment_methods,
              total_bags |-> total_bags, bikes |-> bikes, insurance |-> insurance] IN
  IF trip_type \notin TripType THEN Raise(db1, "ValidationError", "TrainReservation.trip_type")
  ELSE OkRet([db1 EXCEPT !.reservations = Put(@, reservation_id, reservation),
                         !.users[user_id].reservations = Append(@, reservation_id)],
             <<reservation>>)

\* railway/tools.py 434-443: one negated entry for every entry of the history
RailRefunds(payment_history) ==
  [i \in DOMAIN payment_history |->
     [payment_id |-> payment_history[i].payment_id, amount |-> 0 - payment_history[i].amount]]

\* cancel_reservation that refunds only the first entry of the history
cancel_reservation_FirstOnly(db, reservation_id) ==
  IF reservation_id \notin DOMAIN db.reservations
    THEN Raise(db, "ValueError", "Reservation not found")
  ELSE LET db1 == [db EXCEPT
                     !.reservations[reservation_id].payment_history =
                         @ \o SubSeq(RailRefunds(@), 1, 1),
                     !.reservations[reservation_id].status = "cancelled"] IN
       OkRet(db1, <<db1.reservations[reservation_id]>>)

\* railway/tools.py 427-447
cancel_reservation(db, reservation_id) ==
  IF reservation_id \notin DOMAIN db.reservations
    THEN Raise(db, "ValueError", "Reservation not found")
  ELSE LET db1 == [db EXCEPT
                     !.reservations[reservation_id].payment_history = @ \o RailRefunds(@),
                     !.reservations[reservation_id].status = "cancelled"] IN
       OkRet(db1, <<db1.reservations[reservation_id]>>)

\* railway/tools.py 146-174, on the user's payment methods and a price in
\* cents: the error if any, the methods after the deduction and the payment
\* record, if one is made
_payment_for_update(methods, payment_id, total_price) ==
  IF payment_id \notin DOMAIN methods
    THEN [err |-> "Payment method not found", methods |-> methods, payment |-> <<>>]
  ELSE IF total_price > 0 /\ methods[payment_id].source = "wallet" /\ total_price % 100 # 0
    THEN [err |-> "Wallet payments must be whole dollars", methods |-> methods, payment |-> <<>>]
  ELSE IF /\ total_price > 0 /\ methods[payment_id].source = "wallet"
          /\ methods[payment_id].amount < total_price \div 100
    THEN [err |-> "Wallet balance is not enough", methods |-> methods, payment |-> <<>>]
  ELSE [err |-> "",
        methods |-> IF total_price > 0 /\ methods[payment_id].source = "wallet"
                      THEN [methods EXCEPT ![payment_id].amount = @ - total_price \div 100]
                      ELSE methods,
        payment |-> IF total_price # 0
                      THEN <<[payment_id |-> payment_id, amount |-> total_price]>>
                      ELSE <<>>]

\* the reservation charged or refunded delta_price cents and changed to
\* changed: the common end of the three update tools
ChargeAndUpdate(db, reservation_id, payment_id, delta_price, changed) ==
  LET user_id == db.reservations[reservation_id].user_id
      pay == _payment_for_update(db.users[user_id].payment_methods, payment_id, delta_price) IN
    IF pay.err # "" THEN Raise(db, "ValueError", pay.err)
    ELSE LET db1 == [db EXCEPT
                       !.users[user_id].payment_methods = pay.methods,
                       !.reservations[reservation_id] =
                           [changed EXCEPT !.payment_history = @ \o pay.payment]] IN
         OkRet(db1, <<db1.reservations[reservation_id]>>)

\* railway/tools.py 449-476
update_reservation_bags(db, reservation_id, total_bags, payment_id) ==
  IF reservation_id \notin DOMAIN db.reservations
    THEN Raise(db, "ValueError", "Reservation not found")
  ELSE LET reservation == db.reservations[reservation_id] IN
  IF reservation.user_id \notin DOMAIN db.users THEN Raise(db, "ValueError", "User not found")
  ELSE LET included_bags == reservation.passengers
           previous_extra == Max(0, reservation.total_bags - included_bags)
           new_extra == Max(0, total_bags - included_bags)
           delta_price == 15 * (new_extra - previous_extra) IN
    ChargeAndUpdate(db, reservation_id, payment_id, 100 * delta_price,
                    [reservation EXCEPT !.total_bags = total_bags])

\* railway/tools.py 478-500
update_reservation_bikes(db, reservation_id, bikes, payment_id) ==
  IF reservation_id \notin DOMAIN db.reservations
    THEN Raise(db, "ValueError", "Reservation not found")
  ELSE LET reservation == db.reservations[reservation_id] IN
  IF reservation.user_id \notin DOMAIN db.users THEN Raise(db, "ValueError", "User not found")
  ELSE LET delta_price == 10 * (bikes - reservation.bikes) IN
    ChargeAndUpdate(db, reservation_id, payment_id, 100 * delta_price,
                    [reservation EXCEPT !.bikes = bikes])

\* railway/tools.py 502-562
update_reservation_trains(db, reservation_id, travel_class, trains, payment_id) ==
  IF reservation_id \notin DOMAIN db.reservations
    THEN Raise(db, "ValueError", "Reservation not found")
  ELSE LET reservation == db.reservations[reservation_id] IN
  IF reservation.user_id \notin DOMAIN db.users THEN Raise(db, "ValueError", "User not found")
  ELSE IF TrainsError(db, trains, 1) # "" THEN Raise(db, "ValueError", TrainsError(db, trains, 1))
  ELSE LET num_pax == reservation.passengers
           new_segments ==
             [i \in DOMAIN trains |->
                [train_number |-> trains[i].train_number, date |-> trains[i].date,
                 price |-> _compute_segment_price(
                             db.trains[trains[i].train_number].service_type, travel_class)]]
           new_fare_total == SumSeq(new_segments, "price") * num_pax
           old_fare_total == SumSeq(reservation.trains, "price") * num_pax
           fare_diff_after_discount ==
             _apply_membership_discount(new_fare_total - old_fare_total,
                                        db.users[reservation.user_id].membership) IN
    ChargeAndUpdate(db, reservation_id, payment_id, fare_diff_after_discount,
                    [reservation EXCEPT !.trains = new_segments])

\* railway/tools.py 633-637: the first wallet of the user, "" if there is none
FirstWallet(methods) ==
  LET wallets == {pid \in DOMAIN methods : methods[pid].source = "wallet"} IN
    IF wallets = {} THEN "" ELSE CHOOSE pid \in wallets : TRUE

\* railway/tools.py 615-659: amount is an int of whole dollars
add_wallet_funds(db, user_id, amount) ==
  IF amount <= 0 THEN Raise(db, "ValueError", "Amount must be a positive integer")
  ELSE IF user_id \notin DOMAIN db.users THEN Raise(db, "ValueError", "User not found")
  ELSE LET methods == db.users[user_id].payment_methods
           new_ids == <<"wallet_1001", "wallet_1002", "wallet_1003">>
           free == {i \in DOMAIN new_ids : new_ids[i] \notin DOMAIN methods}
           wallet_id == IF FirstWallet(methods) # "" THEN FirstWallet(methods)
                        ELSE IF free = {} THEN ""
                        ELSE new_ids[CHOOSE i \in free : \A j \in free : i <= j]
           methods1 == IF FirstWallet(methods) = "" /\ wallet_id # ""
                         THEN Put(methods, wallet_id, [source |-> "wallet", amount |-> 0])
                         ELSE methods IN
  IF wallet_id = "" THEN Raise(db, "ValueError", "Too many wallets")
  ELSE OkRet([db EXCEPT !.users[user_id].payment_methods =
                           [methods1 EXCEPT ![wallet_id].amount = @ + amount]],
             <<wallet_id>>)

\* an allocator that returns the first id of the pool whether it is taken or not
_new_booking_id_First(db) == "BKG001"

\* movie/tools.py 83-90: "" when the three ids are taken
_new_booking_id(db) ==
  LET pool == <<"BKG001", "BKG002", "BKG003">>
      free == {i \in DOMAIN pool : pool[i] \notin DOMAIN db.bookings} IN
    IF free = {} THEN "" ELSE pool[CHOOSE i \in free : \A j \in free : i <= j]

DeliveryMethod == {"e-ticket", "box-office", "kiosk"}

\* movie/tools.py 345-450, called without concessions
create_booking(db, theater_id, show_id, seats, delivery_method, payments) ==
  IF theater_id \notin DOMAIN db.theaters THEN Raise(db, "ValueError", "Theater not found")
  ELSE LET theater == db.theaters[theater_id] IN
  IF show_id \notin DOMAIN theater.shows THEN Raise(db, "ValueError", "Show not found")
  ELSE LET show == theater.shows[show_id] IN
  IF show.status # "scheduled"
    THEN Raise(db, "ValueError", "Show is not available for booking")
  ELSE IF show.auditorium_id \notin DOMAIN theater.auditoriums
    THEN Raise(db, "ValueError", "Auditorium not found")
  ELSE LET requested_seat_ids == {seats[i].seat_id : i \in DOMAIN seats} IN
  IF requested_seat_ids \ theater.auditoriums[show.auditorium_id] # {}
    THEN Raise(db, "ValueError", "Unknown seat ids")
  ELSE IF requested_seat_ids \cap _booked_seats_for_show(db, theater_id, show_id) # {}
    THEN Raise(db, "ValueError", "Seats not available")
  ELSE IF \E i \in DOMAIN seats : seats[i].ticket_type \notin {"adult", "child", "senior"}
    THEN Raise(db, "ValueError", "Unsupported ticket type")
  ELSE LET booked_seats == _build_booked_seats(show, theater, seats)
           tickets_subtotal == SumSeq(booked_seats, "price")
           fees_total == SumSeq(booked_seats, "convenience_fee") + theater.booking_fee
           tax_total == SumSeq(booked_seats, "tax")
           grand_total == tickets_subtotal + fees_total + tax_total
           total_paid == Round2(SumSeq(payments, "amount")) IN
  IF total_paid # grand_total THEN Raise(db, "ValueError", "Payment amount does not add up")
  ELSE LET booking_id == _new_booking_id(db) IN
  IF booking_id = "" THEN Raise(db, "ValueError", "Too many new bookings in this session")
  ELSE IF delivery_method \notin DeliveryMethod
    THEN Raise(db, "ValidationError", "Delivery.method")
  ELSE LET booking == [theater_id |-> theater_id, show_id |-> show_id,
                       status |-> "confirmed", seats |-> requested_seat_ids,
                       canceled_at |-> "",
                       grand_total |-> grand_total, amount_paid |-> total_paid,
                       amount_due |-> Round2(grand_total - total_paid),
                       payment_history |-> payments] IN
    OkRet([db EXCEPT !.bookings = Put(@, booking_id, booking)], <<booking_id>>)

\* movie/tools.py 92-96
_now_str == "24-05-15-15-00"

\* a cancellation that skips the status test and refunds the grand total
movie_cancel_booking_RefundsTotal(db, booking_id) ==
  IF booking_id \notin DOMAIN db.bookings THEN Raise(db, "ValueError", "Booking not found")
  ELSE LET booking == db.bookings[booking_id]
           refund_amount == 0 - booking.grand_total
           refunded ==
             [booking EXCEPT
                !.payment_history =
                   Append(@, [payment_id |-> booking_id \o "-refund", amount |-> refund_amount]),
                !.amount_paid = booking.amount_paid + refund_amount,
                !.amount_due = booking.grand_total - (booking.amount_paid + refund_amount)]
           canceled == [refunded EXCEPT !.status = "canceled", !.canceled_at = _now_str] IN
    OkRet([db EXCEPT !.bookings[booking_id] = canceled], <<canceled>>)

\* movie/tools.py 452-482: cancel_booking of the movie domain
movie_cancel_booking(db, booking_id) ==
  IF booking_id \notin DOMAIN db.bookings THEN Raise(db, "ValueError", "Booking not found")
  ELSE LET booking == db.bookings[booking_id] IN
  IF booking.status \in {"canceled", "refunded"} THEN OkRet(db, <<booking>>)
  ELSE LET refund_amount == 0 - booking.amount_paid
           refunded ==
             IF refund_amount # 0
               THEN [booking EXCEPT
                       !.payment_history =
                          Append(@, [payment_id |-> booking_id \o "-refund",
                                     amount |-> Round2(refund_amount)]),
                       !.amount_paid = Round2(booking.amount_paid + refund_amount),
                       !.amount_due =
                          Round2(booking.grand_total
                                   - Round2(booking.amount_paid + refund_amount))]
             ELSE booking
           canceled == [refunded EXCEPT !.status = "canceled", !.canceled_at = _now_str] IN
    OkRet([db EXCEPT !.bookings[booking_id] = canceled], <<canceled>>)

\* a seat update that records the payment or refund and leaves amount_paid
ApplySeatUpdate_KeepsAmountPaid(db, booking_id, theater, show, seats, payment) ==
  LET booking == db.bookings[booking_id]
      new_booked_seats == _build_booked_seats(show, theater, seats)
      new_tickets_subtotal == SumSeq(new_booked_seats, "price")
      new_fees_total == SumSeq(new_booked_seats, "convenience_fee") + theater.booking_fee
      new_tax_total == SumSeq(new_booked_seats, "tax")
      new_grand_total == new_tickets_subtotal + new_fees_total + new_tax_total
      diff == new_grand_total - booking.grand_total IN
    IF diff > 0 /\ (payment = <<>> \/ Round2(payment[1].amount) # diff)
      THEN Raise(db, "ValueError", "Additional payment is required to complete the update")
    ELSE LET history ==
               IF diff > 0 THEN Append(booking.payment_history, payment[1])
               ELSE IF diff < 0
                 THEN Append(booking.payment_history,
                             [payment_id |-> booking_id \o "-adj-refund", amount |-> diff])
               ELSE booking.payment_history
             updated ==
               [booking EXCEPT
                  !.payment_history = history,
                  !.seats = {seats[i].seat_id : i \in DOMAIN seats},
                  !.grand_total = new_grand_total,
                  !.amount_due = Round2(new_grand_total - booking.amount_paid)] IN
      OkRet([db EXCEPT !.bookings[booking_id] = updated], <<updated>>)

\* the totals, the payment or refund of the difference and the new seats
\* (movie/tools.py 526-574); payment is <<>> for None
ApplySeatUpdate(db, booking_id, theater, show, seats, payment) ==
  LET booking == db.bookings[booking_id]
      new_booked_seats == _build_booked_seats(show, theater, seats)
      new_tickets_subtotal == SumSeq(new_booked_seats, "price")
      new_fees_total == SumSeq(new_booked_seats, "convenience_fee") + theater.booking_fee
      new_tax_total == SumSeq(new_booked_seats, "tax")
      new_grand_total == new_tickets_subtotal + new_fees_total + new_tax_total
      diff == new_grand_total - booking.grand_total IN
    IF diff > 0 /\ (payment = <<>> \/ Round2(payment[1].amount) # diff)
      THEN Raise(db, "ValueError", "Additional payment is required to complete the update")
    ELSE LET history ==
               IF diff > 0 THEN Append(booking.payment_history, payment[1])
               ELSE IF diff < 0
                 THEN Append(booking.payment_history,
                             [payment_id |-> booking_id \o "-adj-refund", amount |-> diff])
               ELSE booking.payment_history
             updated ==
               [booking EXCEPT
                  !.payment_history = history,
                  !.amount_paid = Round2(booking.amount_paid + diff),
                  !.seats = {seats[i].seat_id : i \in DOMAIN seats},
                  !.grand_total = new_grand_total,
                  !.amount_due = Round2(new_grand_total - Round2(booking.amount_paid + diff))] IN
      OkRet([db EXCEPT !.bookings[booking_id] = updated], <<updated>>)

\* a seat update that takes the requested seats whoever holds them
update_booking_seats_NoConflictTest(db, booking_id, seats, payment) ==
  IF booking_id \notin DOMAIN db.bookings THEN Raise(db, "ValueError", "Booking not found")
  ELSE LET booking == db.bookings[booking_id] IN
  IF booking.theater_id \notin DOMAIN db.theaters
    THEN Raise(db, "ValueError", "Theater not found")
  ELSE LET theater == db.theaters[booking.theater_id] IN
  IF booking.show_id \notin DOMAIN theater.shows THEN Raise(db, "ValueError", "Show not found")
  ELSE LET show == theater.shows[booking.show_id] IN
  IF booking.status # "confirmed"
    THEN Raise(db, "ValueError", "Only confirmed bookings can be updated")
  ELSE IF show.status # "scheduled" THEN Raise(db, "ValueError", "Show is not bookable")
  ELSE IF show.auditorium_id \notin DOMAIN theater.auditoriums
    THEN Raise(db, "ValueError", "Auditorium not found")
  ELSE LET new_seat_ids == {seats[i].seat_id : i \in DOMAIN seats} IN
  IF new_seat_ids \ theater.auditoriums[show.auditorium_id] # {}
    THEN Raise(db, "ValueError", "Unknown seat ids")
  ELSE IF \E i \in DOMAIN seats : seats[i].ticket_type \notin {"adult", "child", "senior"}
    THEN Raise(db, "ValueError", "Unsupported ticket type")
  ELSE ApplySeatUpdate(db, booking_id, theater, show, seats, payment)

\* movie/tools.py 484-574; the concessions of the booking are empty
update_booking_seats(db, booking_id, seats, payment) ==
  IF booking_id \notin DOMAIN db.bookings THEN Raise(db, "ValueError", "Booking not found")
  ELSE LET booking == db.bookings[booking_id] IN
  IF booking.theater_id \notin DOMAIN db.theaters
    THEN Raise(db, "ValueError", "Theater not found")
  ELSE LET theater == db.theaters[booking.theater_id] IN
  IF booking.show_id \notin DOMAIN theater.shows THEN Raise(db, "ValueError", "Show not found")
  ELSE LET show == theater.shows[booking.show_id] IN
  IF booking.status # "confirmed"
    THEN Raise(db, "ValueError", "Only confirmed bookings can be updated")
  ELSE IF show.status # "scheduled" THEN Raise(db, "ValueError", "Show is not bookable")
  ELSE IF show.auditorium_id \notin DOMAIN theater.auditoriums
    THEN Raise(db, "ValueError", "Auditorium not found")
  ELSE LET new_seat_ids == {seats[i].seat_id : i \in DOMAIN seats}
           globally_booked == _booked_seats_for_show(db, booking.theater_id, booking.show_id)
           current_seat_ids == booking.seats
           unavailable == (new_seat_ids \ current_seat_ids) \cap globally_booked IN
  IF new_seat_ids \ theater.auditoriums[show.auditorium_id] # {}
    THEN Raise(db, "ValueError", "Unknown seat ids")
  ELSE IF unavailable # {} THEN Raise(db, "ValueError", "Seats not available")
  ELSE IF \E i \in DOMAIN seats : seats[i].ticket_type \notin {"adult", "child", "senior"}
    THEN Raise(db, "ValueError", "Unsupported ticket type")
  ELSE ApplySeatUpdate(db, booking_id, theater, show, seats, payment)

(***************************************************************************)
(* The operations that create bookings and reservations, run together      *)
(***************************************************************************)
\* the travel database with room for more bookings than the pool has ids
TravelIdsInitDB ==
  [TravelInitDB EXCEPT !.packages["P1"].departures["D2"].available_slots = 4]

BookPackageAgain ==
  \E pays \in {<<[payment_id |-> "card", amount |-> 150]>>,
               <<[payment_id |-> "card", amount |-> 100]>>} :
    /\ LET r == book_package(travel, "T1", "P1", "D2", 1, <<>>, "none", pays) IN
         /\ travel' = r.db
         /\ call' = Called("book_package", "WRITE", "", r)
    /\ UNCHANGED <<med, bank, shop, rest, bball, movie, rail, orch, school, envs>>

BookTrainReservation ==
  \E u \in {"U1", "UX"}, tt \in {"one_way", "return"}, dd \in {"D1", "D2"},
     pays \in {<<[payment_id |-> "card_1", amount |-> 3600]>>,
               <<[payment_id |-> "wallet_1", amount |-> 3600]>>} :
    /\ (u = "UX" \/ dd = "D2") => (tt = "one_way" /\ pays[1].payment_id = "card_1")
    /\ LET r == book_train_reservation(rail, u, tt, "ac_2_tier",
                                       <<[train_number |-> "TR1", date |-> dd]>>,
                                       1, pays, 1, 0, "no") IN
         /\ rail' = r.db
         /\ call' = Called("book_train_reservation", "WRITE", "", r)
    /\ UNCHANGED <<med, bank, travel, shop, rest, bball, movie, orch, school, envs>>

CreateBooking ==
  \E sh \in {"SH1", "SH2"}, seat \in {"A1", "A2", "A3", "A4", "A5"},
     dm \in {"e-ticket", "fax"}, paid \in {12600, 10000} :
    /\ (sh = "SH2" \/ dm = "fax" \/ paid = 1000) => seat = "A2"
    /\ sh = "SH2" => (dm = "e-ticket" /\ paid = 12600)
    /\ LET r == create_booking(movie, "TH1", sh,
                               <<[seat_id |-> seat, ticket_type |-> "adult"]>>, dm,
                               <<[payment_id |-> "PAY2", amount |-> paid]>>) IN
         /\ movie' = r.db
         /\ call' = Called("create_booking", "WRITE", "", r)
    /\ UNCHANGED <<med, bank, travel, shop, rest, bball, rail, orch, school, envs>>

InitIds ==
  /\ travel = TravelIdsInitDB
  /\ rail = RailInitDB
  /\ movie = MovieInitDB
  /\ med = <<>> /\ bank = <<>> /\ shop = <<>> /\ rest = <<>> /\ bball = <<>>
  /\ orch = <<>>
  /\ school = <<>> /\ envs = <<>>
  /\ call = NoCall

NextIds ==
  \/ BookPackageAgain
  \/ BookTrainReservation
  \/ CreateBooking

SpecIds == InitIds /\ [][NextIds]_vars

\* the ids a database has in use
TravelIdsUsed(db) ==
  UNION {{db.travelers[t].bookings[i].booking_id : i \in DOMAIN db.travelers[t].bookings} :
           t \in DOMAIN db.travelers}

RailPnrsUsed(db) == {db.reservations[r].pnr : r \in DOMAIN db.reservations}

PoolOf(sq) == {sq[i] : i \in DOMAIN sq}

\* C18: a create operation that succeeds takes an id of its pool of three
\* that the database does not use yet; an id in use stays in use, so no id
\* is given to two entities; a create operation called when the three ids
\* of its pool are in use raises and leaves the database unchanged.
C18_PoolIdsAreFresh ==
  [][/\ TravelIdsUsed(travel) \subseteq TravelIdsUsed(travel')
     /\ DOMAIN movie.bookings \subseteq DOMAIN movie'.bookings
     /\ DOMAIN rail.reservations \subseteq DOMAIN rail'.reservations
     /\ RailPnrsUsed(rail) \subseteq RailPnrsUsed(rail')
     /\ (call'.tool = "book_package" /\ call'.outcome = "ok") =>
          /\ call'.ret[1] \in PoolOf(NewBookingIds) \ TravelIdsUsed(travel)
          /\ TravelIdsUsed(travel') = TravelIdsUsed(travel) \cup {call'.ret[1]}
     /\ (call'.tool = "book_package" /\ PoolOf(NewBookingIds) \subseteq TravelIdsUsed(travel)) =>
          call'.outcome # "ok" /\ travel' = travel
     /\ (call'.tool = "create_booking" /\ call'.outcome = "ok") =>
          /\ call'.ret[1] \in {"BKG001", "BKG002", "BKG003"} \ DOMAIN movie.bookings
          /\ DOMAIN movie'.bookings = DOMAIN movie.bookings \cup {call'.ret[1]}
          /\ \A b \in DOMAIN movie.bookings : movie'.bookings[b] = movie.bookings[b]
     /\ (call'.tool = "create_booking"
           /\ {"BKG001", "BKG002", "BKG003"} \subseteq DOMAIN movie.bookings) =>
          call'.outcome # "ok" /\ movie' = movie
     /\ (call'.tool = "book_train_reservation" /\ call'.outcome = "ok") =>
          /\ call'.ret[1].reservation_id
               \in PoolOf(NewReservationIds) \ DOMAIN rail.reservations
          /\ call'.ret[1].pnr \in PoolOf(NewPnrs) \ RailPnrsUsed(rail)
          /\ DOMAIN rail'.reservations
               = DOMAIN rail.reservations \cup {call'.ret[1].reservation_id}
          /\ \A r \in DOMAIN rail.reservations : rail'.reservations[r] = rail.reservations[r]
     /\ (call'.tool = "book_train_reservation"
           /\ (PoolOf(NewReservationIds) \subseteq DOMAIN rail.reservations
                 \/ PoolOf(NewPnrs) \subseteq RailPnrsUsed(rail))) =>
          call'.outcome # "ok" /\ rail' = rail]_vars

C18_Witness ==
  /\ call.tool = "create_booking" /\ call.outcome = "ValueError"
  /\ {"BKG001", "BKG002", "BKG003"} \subseteq DOMAIN movie.bookings
  /\ PoolOf(NewReservationIds) \subseteq DOMAIN rail.reservations
  /\ PoolOf(NewBookingIds) \subseteq TravelIdsUsed(travel)

(***************************************************************************)
(* Railway reservations, their payments and the wallets                    *)
(***************************************************************************)
\* whole dollars a wallet is funded up to
MaxWallet == 20

\* a user with twenty dollars in the wallet and a user without a wallet
RailWalletInitDB ==
  [RailInitDB EXCEPT
     !.users = Put([@ EXCEPT !["U1"].payment_methods["wallet_1"].amount = 20], "U2",
                   [membership |-> "regular",
                    payment_methods |-> [pm \in {"card_2"} |->
                                           [source |-> "credit_card", amount |-> 0]],
                    reservations |-> <<>>])]

RailFrame == UNCHANGED <<med, bank, travel, shop, rest, bball, movie, orch, school, envs>>

\* room in the reservation's payment_history for n more entries
RailEntriesRoom(reservation_id, n) ==
  reservation_id \in DOMAIN rail.reservations =>
    Len(rail.reservations[reservation_id].payment_history) + n <= MaxEntries

\* one passenger on the regional train, paid by card and wallet in parts
BookTrainWithWallet ==
  \E pays \in {<<[payment_id |-> "card_1", amount |-> 3600]>>,
               <<[payment_id |-> "wallet_1", amount |-> 2000],
                 [payment_id |-> "wallet_1", amount |-> 1600]>>,
               <<[payment_id |-> "card_1", amount |-> 1600],
                 [payment_id |-> "wallet_1", amount |-> 2000]>>} :
    /\ Cardinality(DOMAIN rail.reservations) < MaxBookings
    /\ LET r == book_train_reservation(rail, "U1", "one_way", "ac_2_tier",
                                       <<[train_number |-> "TR1", date |-> "D1"]>>,
                                       1, pays, 1, 0, "no") IN
         /\ rail' = r.db
         /\ call' = Called("book_train_reservation", "WRITE", "", r)
    /\ RailFrame

CancelReservation ==
  \E res \in {"RES0", "TRN001", "RESX"} :
    /\ res \in DOMAIN rail.reservations =>
         RailEntriesRoom(res, Len(rail.reservations[res].payment_history))
    /\ LET r == cancel_reservation(rail, res) IN
         /\ rail' = r.db
         /\ call' = Called("cancel_reservation", "WRITE", res, r)
    /\ RailFrame

UpdateReservationBags ==
  \E res \in {"RES0", "RESX"}, n \in {1, 2}, pm \in {"card_1", "wallet_1", "pm_X"} :
    /\ RailEntriesRoom(res, 1)
    /\ LET r == update_reservation_bags(rail, res, n, pm) IN
         /\ rail' = r.db
         /\ call' = Called("update_reservation_bags", "WRITE", res, r)
    /\ RailFrame

UpdateReservationBikes ==
  \E res \in {"RES0", "RESX"}, n \in {0, 1}, pm \in {"card_1"} :
    /\ RailEntriesRoom(res, 1)
    /\ LET r == update_reservation_bikes(rail, res, n, pm) IN
         /\ rail' = r.db
         /\ call' = Called("update_reservation_bikes", "WRITE", res, r)
    /\ RailFrame

UpdateReservationTrains ==
  \E res \in {"RES0", "RESX"}, tc \in {"ac_2_tier", "sleeper", "first_class"},
     dd \in {"D1", "D2"}, pm \in {"wallet_1"} :
    /\ RailEntriesRoom(res, 1)
    /\ LET r == update_reservation_trains(rail, res, tc,
                                          <<[train_number |-> "TR1", date |-> dd]>>, pm) IN
         /\ rail' = r.db
         /\ call' = Called("update_reservation_trains", "WRITE", res, r)
    /\ RailFrame

AddWalletFunds ==
  \E u \in {"U1", "U2", "UX"}, a \in {0, 20} :
    /\ \A m \in {"wallet_1", "wallet_1001"} :
         (u \in DOMAIN rail.users /\ m \in DOMAIN rail.users[u].payment_methods) =>
           rail.users[u].payment_methods[m].amount + a <= MaxWallet
    /\ LET r == add_wallet_funds(rail, u, a) IN
         /\ rail' = r.db
         /\ call' = Called("add_wallet_funds", "WRITE", u, r)
    /\ RailFrame

InitRail ==
  /\ rail = RailWalletInitDB
  /\ med = <<>> /\ bank = <<>> /\ travel = <<>> /\ shop = <<>> /\ rest = <<>>
  /\ bball = <<>> /\ movie = <<>> /\ orch = <<>>
  /\ school = <<>> /\ envs = <<>>
  /\ call = NoCall

NextRail ==
  \/ BookTrainWithWallet
  \/ CancelReservation
  \/ UpdateReservationBags
  \/ UpdateReservationBikes
  \/ UpdateReservationTrains
  \/ AddWalletFunds

SpecRail == InitRail /\ [][NextRail]_vars

\* C27: every successful cancel_reservation leaves the reservation cancelled
\* with a payment_history that sums to zero, keeps every entry that was there
\* before the call, unchanged and in place, and appends for each of them, in
\* order, an entry of the negated amount with the same payment_id.
C27_CancelAppendsAndNetsToZero ==
  [][(call'.tool = "cancel_reservation" /\ call'.outcome = "ok") =>
       LET before == rail.reservations[call'.target].payment_history
           after == rail'.reservations[call'.target].payment_history IN
         /\ rail'.reservations[call'.target].status = "cancelled"
         /\ SumSeq(after, "amount") = 0
         /\ Len(after) = 2 * Len(before)
         /\ \A i \in DOMAIN before :
              /\ after[i] = before[i]
              /\ after[Len(before) + i].payment_id = before[i].payment_id
              /\ after[Len(before) + i].amount = 0 - before[i].amount]_vars

\* a second cancellation of a reservation that was changed and paid for
\* before the first
C27_Witness ==
  /\ call.tool = "cancel_reservation" /\ call.outcome = "ok" /\ call.target = "RES0"
  /\ Len(rail.reservations["RES0"].payment_history) = 4
  /\ rail.reservations["RES0"].payment_history[2].amount = 0 - 3600

\* C28: no wallet of any user has a negative amount.
C28_WalletNeverNegative ==
  \A u \in DOMAIN rail.users : \A pm \in DOMAIN rail.users[u].payment_methods :
    rail.users[u].payment_methods[pm].source = "wallet" =>
      rail.users[u].payment_methods[pm].amount >= 0

(***************************************************************************)
(* Movie domain: bookings, seat updates and cancellations of one show      *)
(* (movie/tools.py 345-574)                                                *)
(***************************************************************************)
MovieFrame == UNCHANGED <<med, bank, travel, shop, rest, bball, rail, orch, school, envs>>

MovieBookingIds == {"BK1", "BKG001", "BKG002", "BKX"}

Adult(seat_id) == [seat_id |-> seat_id, ticket_type |-> "adult"]

\* one or two seats of auditorium AU1, a child ticket and an unknown seat
SeatLists ==
  { <<Adult("A1")>>, <<Adult("A2")>>, <<Adult("A1"), Adult("A2")>>,
    <<Adult("A2"), Adult("A3")>>, <<[seat_id |-> "A2", ticket_type |-> "child"]>>,
    <<Adult("Z9")>> }

MovieEntriesRoom(booking_id, n) ==
  booking_id \in DOMAIN movie.bookings =>
    Len(movie.bookings[booking_id].payment_history) + n <= MaxEntries

\* one adult costs 12.60 and two adults cost 24.70 with fees and tax; the
\* third payment is 12.604, offered for the first new booking
CreateSeatBooking ==
  \E seats \in SeatLists, paid \in {12600, 24700, 12604} :
    /\ (paid # 12600 /\ Len(seats) = 1) => seats = <<Adult("A2")>>
    /\ paid = 12604 => (Len(seats) = 1 /\ "BKG001" \notin DOMAIN movie.bookings)
    /\ Cardinality(DOMAIN movie.bookings) <= MaxBookings
    /\ LET r == create_booking(movie, "TH1", "SH1", seats, "e-ticket",
                               <<[payment_id |-> "PAY2", amount |-> paid]>>) IN
         /\ movie' = r.db
         /\ call' = Called("create_booking", "WRITE", "", r) @@ [err |-> r.err]
    /\ MovieFrame

MovieCancelBooking ==
  \E b \in MovieBookingIds :
    /\ MovieEntriesRoom(b, 1)
    /\ LET r == movie_cancel_booking(movie, b) IN
         /\ movie' = r.db
         /\ call' = Called("cancel_booking", "WRITE", b, r) @@ [err |-> r.err]
    /\ MovieFrame

\* the payment is None, the price of a second adult or 12.104, and one call
\* stands for the calls that offer a payment for a single seat
UpdateBookingSeats ==
  \E b \in MovieBookingIds \ {"BKG002"}, seats \in SeatLists,
     payment \in {<<>>, <<[payment_id |-> "PAY3", amount |-> 12100]>>,
                  <<[payment_id |-> "PAY3", amount |-> 12104]>>} :
    /\ (payment # <<>> /\ Len(seats) = 1) => seats = <<Adult("A1")>>
    /\ (payment # <<>> /\ payment[1].amount = 12104) => b = "BKG001"
    /\ b = "BK1" => (payment = <<>> /\ Len(seats) = 1)
    /\ b = "BKX" => (seats = <<Adult("A1")>> /\ payment = <<>>)
    /\ MovieEntriesRoom(b, 1)
    /\ LET r == update_booking_seats(movie, b, seats, payment) IN
         /\ movie' = r.db
         /\ call' = Called("update_booking_seats", "WRITE", b, r) @@ [err |-> r.err]
    /\ MovieFrame

InitMovie ==
  /\ movie = MovieInitDB
  /\ med = <<>> /\ bank = <<>> /\ travel = <<>> /\ shop = <<>> /\ rest = <<>>
  /\ bball = <<>> /\ rail = <<>> /\ orch = <<>>
  /\ school = <<>> /\ envs = <<>>
  /\ call = NoCall

NextMovie ==
  \/ CreateSeatBooking
  \/ MovieCancelBooking
  \/ UpdateBookingSeats

SpecMovie == InitMovie /\ [][NextMovie]_vars

\* two different confirmed bookings of one show of one theater share no seat
NoDoubleBooking(db) ==
  \A b1, b2 \in DOMAIN db.bookings :
    (/\ b1 # b2
     /\ db.bookings[b1].status = "confirmed" /\ db.bookings[b2].status = "confirmed"
     /\ db.bookings[b1].theater_id = db.bookings[b2].theater_id
     /\ db.bookings[b1].show_id = db.bookings[b2].show_id) =>
      db.bookings[b1].seats \cap db.bookings[b2].seats = {}

\* C29: starting without a doubly held seat, after any sequence of
\* create_booking, update_booking_seats and cancel_booking no seat of a show is
\* held by two different confirmed bookings.
C29_NoDoubleBooking == NoDoubleBooking(movie)

\* a booking moved by update_booking_seats onto the seat that a cancelled
\* booking has released, next to another confirmed booking of the show
C29_Witness ==
  /\ call.tool = "update_booking_seats" /\ call.outcome = "ok"
  /\ movie.bookings["BK1"].status = "canceled"
  /\ {"BKG001", "BKG002"} \subseteq DOMAIN movie.bookings
  /\ movie.bookings[call.target].status = "confirmed"
  /\ movie.bookings["BK1"].seats \subseteq movie.bookings[call.target].seats
  /\ \A b \in {"BKG001", "BKG002"} : movie.bookings[b].status = "confirmed"

\* C30: once a booking is canceled no operation changes its record: a further
\* cancel_booking succeeds and returns the record as it is, and
\* update_booking_seats on it raises.
C30_CanceledBookingFrozen ==
  [][\A b \in DOMAIN movie.bookings :
       movie.bookings[b].status = "canceled" =>
         /\ b \in DOMAIN movie'.bookings
         /\ movie'.bookings[b] = movie.bookings[b]
         /\ (call'.tool = "cancel_booking" /\ call'.target = b) =>
              (call'.outcome = "ok" /\ call'.ret = <<movie.bookings[b]>>)
         /\ (call'.tool = "update_booking_seats" /\ call'.target = b) =>
              call'.outcome = "ValueError"]_vars

\* a seat update refused on a booking that was cancelled and refunded once
C30_Witness ==
  /\ call.tool = "update_booking_seats" /\ call.target = "BK1"
  /\ call.outcome = "ValueError" /\ call.err = "Only confirmed bookings can be updated"
  /\ movie.bookings["BK1"].status = "canceled"
  /\ movie.bookings["BK1"].canceled_at = _now_str
  /\ movie.bookings["BK1"].amount_paid = 0
  /\ movie.bookings["BK1"].payment_history =
       <<[payment_id |-> "PAY1", amount |-> 12600],
         [payment_id |-> "BK1-refund", amount |-> 0 - 12600]>>

\* the bookings that create_booking has made
CreatedMovieBookings(db) == DOMAIN db.bookings \ DOMAIN MovieInitDB.bookings

\* what payment_history sums to above amount_paid
Excess(booking) == SumSeq(booking.payment_history, "amount") - booking.amount_paid

SchoolInitDB ==
  [courses |->
     [c \in {"CS1", "CS2", "CS3"} |->
        [term |-> "2025-SPRING", credits |-> 3,
         capacity |-> IF c = "CS2" THEN 1 ELSE 2,
         current_enrollment |-> 1,
         meeting_pattern |->
           [days |-> IF c = "CS3" THEN {} ELSE {"Monday"},
            start_time_est |-> IF c = "CS2" THEN "10-00" ELSE "09-00",
            end_time_est |-> IF c = "CS2" THEN "11-00" ELSE "10-00"]]],
   students |->
     [st \in {"S1"} |-> [payment_methods |-> {"card"}, registrations |-> <<"R1">>]],
   registrations |->
     [r \in {"R1"} |->
        [student_id |-> "S1", term |-> "2025-SPRING", study_level |-> "undergraduate",
         status |-> "part-time",
         courses |-> <<[course_id |-> "CS1", credits |-> 3, grading_option |-> "letter",
                        tuition |-> 1500]>>,
         payment_history |-> <<[payment_id |-> "card", amount |-> 1500]>>,
         total_credits |-> 3, overload_credits |-> 0, health_insurance |-> "no"]]]

\* school/tools.py 50-55: "" when the three ids are taken
_get_new_registration_id(db) ==
  LET pool == <<"REG001", "REG002", "REG003">>
      free == {i \in DOMAIN pool : pool[i] \notin DOMAIN db.registrations} IN
    IF free = {} THEN "" ELSE pool[CHOOSE i \in free : \A j \in free : i <= j]

\* school/tools.py 62-69
_per_credit_rate(study_level) ==
  IF study_level = "undergraduate" THEN 500
  ELSE IF study_level = "graduate" THEN 800 ELSE 400

\* school/tools.py 71-72
_compute_course_tuition(course, study_level) == course.credits * _per_credit_rate(study_level)

\* school/tools.py 74-85
_build_registration_course(course_id, course, grading_option, study_level) ==
  [course_id |-> course_id, credits |-> course.credits, grading_option |-> grading_option,
   tuition |-> _compute_course_tuition(course, study_level)]

\* school/tools.py 87-88
_credits_to_status(total_credits) == IF total_credits >= 12 THEN "full-time" ELSE "part-time"

\* school/tools.py 90-92
_overload_credits(total_credits) == Max(0, total_credits - 18)

\* school/tools.py 94-101: "HH-MM" as minutes since midnight
_parse_time_hhmm(hhmm) ==
  IF hhmm = "09-00" THEN 540 ELSE IF hhmm = "10-00" THEN 600 ELSE 660

\* school/tools.py 103-108
_times_overlap(s1, e1, s2, e2) ==
  _parse_time_hhmm(s1) < _parse_time_hhmm(e2) /\ _parse_time_hhmm(s2) < _parse_time_hhmm(e1)

\* school/tools.py 110-115
_meeting_conflict(m1, m2) ==
  IF m1.days \cap m2.days = {} THEN FALSE
  ELSE _times_overlap(m1.start_time_est, m1.end_time_est, m2.start_time_est, m2.end_time_est)

\* school/tools.py 117-123: TRUE when two entries of the list conflict
_check_time_conflicts(db, course_ids) ==
  \E i, j \in DOMAIN course_ids :
    /\ i < j
    /\ _meeting_conflict(db.courses[course_ids[i]].meeting_pattern,
                         db.courses[course_ids[j]].meeting_pattern)

\* school/tools.py 130-131
_health_insurance_fee(health_insurance) == IF health_insurance = "yes" THEN 300 ELSE 0

\* how often x stands in the list
Occurrences(sq, x) == Cardinality({i \in DOMAIN sq : sq[i] = x})

\* the list without the entries that stand in S
RECURSIVE Without(_, _)
Without(sq, S) ==
  IF sq = <<>> THEN <<>>
  ELSE IF Head(sq) \in S THEN Without(Tail(sq), S)
  ELSE <<Head(sq)>> \o Without(Tail(sq), S)

\* the list followed by the entries of more that it does not hold yet
RECURSIVE AppendEachNew(_, _)
AppendEachNew(sq, more) ==
  IF more = <<>> THEN sq
  ELSE IF InSeq(Head(more), sq) THEN AppendEachNew(sq, Tail(more))
  ELSE AppendEachNew(Append(sq, Head(more)), Tail(more))

\* school/tools.py 233-337, with the default grading options
register_courses(db, student_id, term, course_ids, study_level, health_insurance, payment_methods) ==
  IF student_id \notin DOMAIN db.students THEN Raise(db, "ValueError", "Student not found")
  ELSE IF \E i \in DOMAIN course_ids : course_ids[i] \notin DOMAIN db.courses
    THEN Raise(db, "ValueError", "Course not found")
  ELSE IF \E i \in DOMAIN course_ids : db.courses[course_ids[i]].term # term
    THEN Raise(db, "ValueError", "Course term does not match requested term")
  ELSE IF \E i \in DOMAIN course_ids :
            db.courses[course_ids[i]].current_enrollment >= db.courses[course_ids[i]].capacity
    THEN Raise(db, "ValueError", "Course is full")
  ELSE IF _check_time_conflicts(db, course_ids)
    THEN Raise(db, "ValueError", "Schedule conflict")
  ELSE LET student == db.students[student_id]
           reg_courses ==
             [i \in DOMAIN course_ids |->
                _build_registration_course(course_ids[i], db.courses[course_ids[i]],
                                           "letter", study_level)]
           total_credits == SumSeq(reg_courses, "credits")
           tuition_total == SumSeq(reg_courses, "tuition")
           total_due == tuition_total + _health_insurance_fee(health_insurance)
           total_paid == SumSeq(payment_methods, "amount") IN
  IF \E i \in DOMAIN payment_methods :
       payment_methods[i].payment_id \notin student.payment_methods
    THEN Raise(db, "ValueError", "Payment method not found")
  ELSE IF total_paid # total_due
    THEN Raise(db, "ValueError", "Payment amount does not add up")
  ELSE LET registration_id == _get_new_registration_id(db) IN
  IF registration_id = ""
    THEN Raise(db, "ValueError", "Too many registrations created in this session")
  ELSE LET registration ==
             [student_id |-> student_id, term |-> term, study_level |-> study_level,
              status |-> _credits_to_status(total_credits), courses |-> reg_courses,
              payment_history |-> payment_methods, total_credits |-> total_credits,
              overload_credits |-> _overload_credits(total_credits),
              health_insurance |-> health_insurance]
           enrolled ==
             [c \in DOMAIN db.courses |->
                [db.courses[c] EXCEPT !.current_enrollment = @ + Occurrences(course_ids, c)]] IN
    OkRet([db EXCEPT !.courses = enrolled,
                     !.registrations = Put(@, registration_id, registration),
                     !.students[student_id].registrations = Append(@, registration_id)],
          <<registration_id>>)

\* school/tools.py 339-436, with the default grading options; payment_id is
\* "" when none is passed
update_registration_courses(db, registration_id, add_course_ids, drop_course_ids, payment_id) ==
  IF registration_id \notin DOMAIN db.registrations
    THEN Raise(db, "ValueError", "Registration not found")
  ELSE LET reg == db.registrations[registration_id] IN
  IF reg.student_id \notin DOMAIN db.students THEN Raise(db, "ValueError", "Student not found")
  ELSE LET student == db.students[reg.student_id]
           dropped == {drop_course_ids[i] : i \in DOMAIN drop_course_ids}
           added == {add_course_ids[i] : i \in DOMAIN add_course_ids}
           current_ids == [i \in DOMAIN reg.courses |-> reg.courses[i].course_id]
           target_ids == AppendEachNew(Without(current_ids, dropped), add_course_ids) IN
  IF \E i \in DOMAIN current_ids : current_ids[i] \notin DOMAIN db.courses
    THEN Raise(db, "ValueError", "Course not found")
  ELSE IF \E i \in DOMAIN target_ids : target_ids[i] \notin DOMAIN db.courses
    THEN Raise(db, "ValueError", "Course not found")
  ELSE IF \E i \in DOMAIN target_ids : db.courses[target_ids[i]].term # reg.term
    THEN Raise(db, "ValueError", "Course term does not match registration term")
  ELSE IF \E c \in added : db.courses[c].current_enrollment >= db.courses[c].capacity
    THEN Raise(db, "ValueError", "Course is full")
  ELSE IF _check_time_conflicts(db, target_ids)
    THEN Raise(db, "ValueError", "Schedule conflict")
  ELSE LET old_tuition == SumSeq(reg.courses, "tuition")
           new_reg_courses ==
             [i \in DOMAIN target_ids |->
                _build_registration_course(target_ids[i], db.courses[target_ids[i]],
                                           "letter", reg.study_level)]
           new_tuition == SumSeq(new_reg_courses, "tuition")
           new_credits == SumSeq(new_reg_courses, "credits")
           tuition_diff == new_tuition - old_tuition IN
  IF tuition_diff > 0 /\ payment_id = ""
    THEN Raise(db, "ValueError", "payment_id is required for additional charges")
  ELSE IF tuition_diff > 0 /\ payment_id \notin student.payment_methods
    THEN Raise(db, "ValueError", "Payment method not found")
  ELSE LET refund_payment_id ==
             IF payment_id # "" THEN payment_id
             ELSE IF reg.payment_history # <<>>
               THEN reg.payment_history[Len(reg.payment_history)].payment_id
             ELSE "adjustment"
           history ==
             IF tuition_diff > 0
               THEN Append(reg.payment_history,
                           [payment_id |-> payment_id, amount |-> tuition_diff])
             ELSE IF tuition_diff < 0
               THEN Append(reg.payment_history,
                           [payment_id |-> refund_payment_id, amount |-> tuition_diff])
             ELSE reg.payment_history
           enrolled ==
             [c \in DOMAIN db.courses |->
                LET left == IF c \in dropped
                              THEN Max(0, db.courses[c].current_enrollment
                                            - Occurrences(current_ids, c))
                              ELSE db.courses[c].current_enrollment
                    joined == IF c \in added THEN Occurrences(target_ids, c) ELSE 0 IN
                  [db.courses[c] EXCEPT !.current_enrollment = left + joined]]
           updated ==
             [reg EXCEPT !.payment_history = history, !.courses = new_reg_courses,
                         !.total_credits = new_credits,
                         !.overload_credits = _overload_credits(new_credits),
                         !.status = _credits_to_status(new_credits)] IN
    OkRet([db EXCEPT !.courses = enrolled, !.registrations[registration_id] = updated],
          <<updated>>)

\* school/tools.py 438-467
cancel_registration(db, registration_id) ==
  IF registration_id \notin DOMAIN db.registrations
    THEN Raise(db, "ValueError", "Registration not found")
  ELSE LET reg == db.registrations[registration_id]
           course_ids == [i \in DOMAIN reg.courses |-> reg.courses[i].course_id]
           refunds ==
             [i \in DOMAIN reg.payment_history |->
                [payment_id |-> reg.payment_history[i].payment_id,
                 amount |-> 0 - reg.payment_history[i].amount]] IN
  IF \E i \in DOMAIN course_ids : course_ids[i] \notin DOMAIN db.courses
    THEN Raise([db EXCEPT !.registrations[registration_id].payment_history = @ \o refunds],
               "ValueError", "Course not found")
  ELSE LET enrolled ==
             [c \in DOMAIN db.courses |->
                [db.courses[c] EXCEPT
                   !.current_enrollment = Max(0, @ - Occurrences(course_ids, c))]]
           canceled ==
             [reg EXCEPT !.payment_history = @ \o refunds, !.courses = <<>>,
                         !.total_credits = 0, !.overload_credits = 0,
                         !.status = _credits_to_status(0)] IN
    OkRet([db EXCEPT !.courses = enrolled, !.registrations[registration_id] = canceled],
          <<canceled>>)

SchoolFrame == UNCHANGED <<med, bank, travel, shop, rest, bball, movie, rail, orch, envs>>

SchoolEntriesRoom(registration_id, n) ==
  registration_id \in DOMAIN school.registrations =>
    Len(school.registrations[registration_id].payment_history) + n <= MaxEntries

CourseLists ==
  { <<>>, <<"CS1">>, <<"CS2">>, <<"CS3">>, <<"CS1", "CS3">>, <<"CS1", "CS1">>,
    <<"CS3", "CS3">>, <<"CSX">> }

\* a course costs 1500; one call stands for the calls that an unknown student,
\* another term or a payment method the student does not have stops
RegisterCourses ==
  \E st \in {"S1", "SX"}, term \in {"2025-SPRING", "2025-FALL"}, course_ids \in CourseLists,
     pays \in {<<>>, <<[payment_id |-> "card", amount |-> 1500]>>,
               <<[payment_id |-> "card", amount |-> 3000]>>,
               <<[payment_id |-> "cash", amount |-> 1500]>>} :
    /\ (st = "SX" \/ term = "2025-FALL" \/ (pays # <<>> /\ pays[1].payment_id = "cash")) =>
         course_ids = <<"CS1">>
    /\ (st = "SX" \/ term = "2025-FALL") => pays = <<[payment_id |-> "card", amount |-> 1500]>>
    /\ Cardinality(DOMAIN school.registrations) <= MaxBookings
    /\ LET r == register_courses(school, st, term, course_ids, "undergraduate", "no", pays) IN
         /\ school' = r.db
         /\ call' = Called("register_courses", "WRITE", "", r)
    /\ SchoolFrame

UpdateRegistrationCourses ==
  \E reg \in {"R1", "REG001", "RX"}, add \in {<<>>, <<"CS1">>, <<"CS2">>, <<"CS3">>},
     drop \in {<<>>, <<"CS1">>, <<"CS3">>}, pm \in {"", "card"} :
    /\ reg = "RX" => (add = <<>> /\ drop = <<>> /\ pm = "")
    /\ SchoolEntriesRoom(reg, 1)
    /\ LET r == update_registration_courses(school, reg, add, drop, pm) IN
         /\ school' = r.db
         /\ call' = Called("update_registration_courses", "WRITE", reg, r)
                      @@ [add_course_ids |-> add, drop_course_ids |-> drop]
    /\ SchoolFrame

CancelRegistration ==
  \E reg \in {"R1", "REG001", "RX"} :
    /\ reg \in DOMAIN school.registrations =>
         SchoolEntriesRoom(reg, Len(school.registrations[reg].payment_history))
    /\ LET r == cancel_registration(school, reg) IN
         /\ school' = r.db
         /\ call' = Called("cancel_registration", "WRITE", reg, r)
    /\ SchoolFrame

InitSchool ==
  /\ school = SchoolInitDB
  /\ med = <<>> /\ bank = <<>> /\ travel = <<>> /\ shop = <<>> /\ rest = <<>>
  /\ bball = <<>> /\ movie = <<>> /\ rail = <<>> /\ orch = <<>> /\ envs = <<>>
  /\ call = NoCall

NextSchool ==
  \/ RegisterCourses
  \/ UpdateRegistrationCourses
  \/ CancelRegistration

SpecSchool == InitSchool /\ [][NextSchool]_vars

\* the registrations that contain the course
RegistrationsWith(db, course_id) ==
  {r \in DOMAIN db.registrations :
     \E i \in DOMAIN db.registrations[r].courses :
       db.registrations[r].courses[i].course_id = course_id}

\* C32: for every course the change of current_enrollment since the start of
\* the run equals the change in the number of registrations that contain the
\* course.
C32_EnrollmentFollowsRegistrations ==
  \A c \in DOMAIN school.courses :
    school.courses[c].current_enrollment - SchoolInitDB.courses[c].current_enrollment
      = Cardinality(RegistrationsWith(school, c))
          - Cardinality(RegistrationsWith(SchoolInitDB, c))

\* C33: every course keeps 0 <= current_enrollment <= capacity.
C33_EnrollmentWithinCapacity ==
  \A c \in DOMAIN school.courses :
    /\ 0 <= school.courses[c].current_enrollment
    /\ school.courses[c].current_enrollment <= school.courses[c].capacity

(***************************************************************************)
(* Medicine domain: a reversal that raises                                 *)
(***************************************************************************)
\* C34: a reverse_insurance_claim that raises leaves the database unchanged:
\* no reversal is appended to the fill, no refund to payment_history, and the
\* prescription status is as before.
C34_ReversalRaiseLeavesDbUnchanged ==
  [][(call'.tool = "reverse_insurance_claim" /\ call'.outcome # "ok") => med' = med]_vars

(***************************************************************************)
(* Basketball domain: the outcomes of record_scoring_event                 *)
(***************************************************************************)
\* C35: for every event type of ScoringEventType and every points value,
\* record_scoring_event on a game in progress either appends the event to
\* scoring_history and adds the points to the credited club's score, or raises
\* ValueError and leaves the game unchanged.
C35_ScoringRecordsOrRaisesValueError ==
  [][(/\ call'.tool = "record_scoring_event"
      /\ call'.target \in DOMAIN bball.games
      /\ bball.games[call'.target].status = "in_progress"
      /\ call'.event_type \in ScoringEventType) =>
       LET before == bball.games[call'.target]
           after == bball'.games[call'.target]
           credited == IF call'.club_id = before.home.club_id THEN "home" ELSE "away" IN
         \/ /\ call'.outcome = "ok"
            /\ Len(after.scoring_history) = Len(before.scoring_history) + 1
            /\ after.scoring_history[Len(after.scoring_history)].event_type = call'.event_type
            /\ after[credited].score = before[credited].score + call'.points
         \/ /\ call'.outcome = "ValueError"
            /\ after = before]_vars

(***************************************************************************)
(* E-commerce domain: one return or exchange per delivered sale            *)
(***************************************************************************)
SpecSales == InitShop /\ [][NextSales]_vars

SaleTools ==
  {"return_delivered_sale_lines", "exchange_delivered_sale_lines", "cancel_pending_sale",
   "modify_pending_sale_payment", "modify_pending_sale_delivery"}

\* C36: a successful return_delivered_sale_lines or
\* exchange_delivered_sale_lines leaves the sale's lines and ledger as they
\* were and the sale in the state 'return requested' or 'exchange requested';
\* every later return, exchange, cancel_pending_sale and modify_pending_sale_*
\* call on a sale in one of these states raises and leaves the sale as it is.
C36_ReturnOrExchangeOnlyOnce ==
  [][(call'.tool \in SaleTools /\ call'.target \in DOMAIN shop.sales) =>
       LET before == shop.sales[call'.target]
           after == shop'.sales[call'.target] IN
         /\ (/\ call'.outcome = "ok"
             /\ call'.tool \in {"return_delivered_sale_lines",
                                "exchange_delivered_sale_lines"}) =>
              /\ after.lines = before.lines /\ after.ledger = before.ledger
              /\ before.state = "delivered"
              /\ after.state = (IF call'.tool = "return_delivered_sale_lines"
                                  THEN "return requested" ELSE "exchange requested")
         /\ before.state \in {"return requested", "exchange requested"} =>
              (call'.outcome = "ValueError" /\ after = before)]_vars

\* an exchange refused on a sale whose return was requested before
C36_Witness ==
  /\ call.tool = "exchange_delivered_sale_lines" /\ call.target = "S2"
  /\ call.outcome = "ValueError"
  /\ shop.sales["S2"].state = "return requested"
  /\ shop.sales["S2"].ledger = ShopInitDB.sales["S2"].ledger
  /\ shop.sales["S2"].lines = ShopInitDB.sales["S2"].lines

(***************************************************************************)
(* Environments of the medicine domain and the databases they hold         *)
(* (medicine/environment.py 12-27)                                         *)
(***************************************************************************)
MaxEnvs == 2

\* MedicineDB.load: a new database object with the content of the snapshot
\* file is added to the objects that exist
load(stores) == Append(stores, MedInitDB)

\* a get_environment that loads the snapshot once and keeps the object for
\* the calls that follow
get_environment_LoadsOnce(stores, db, solo_mode) ==
  IF solo_mode
    THEN Raise(stores, "ValueError", "Medicine domain does not support solo mode")
  ELSE IF db = 0 /\ stores = <<>>
    THEN OkRet(load(stores), <<[db |-> 1, loaded |-> TRUE]>>)
  ELSE IF db = 0 THEN OkRet(stores, <<[db |-> 1, loaded |-> TRUE]>>)
  ELSE OkRet(stores, <<[db |-> db, loaded |-> FALSE]>>)

\* environment.py 12-27: db is 0 for None and else the index of the database
\* object that the caller passes; the result is the objects after the call
\* and the environment, whose toolkit holds the object itself
get_environment(stores, db, solo_mode) ==
  IF solo_mode
    THEN Raise(stores, "ValueError", "Medicine domain does not support solo mode")
  ELSE IF db = 0
    THEN OkRet(load(stores), <<[db |-> Len(stores) + 1, loaded |-> TRUE]>>)
  ELSE OkRet(stores, <<[db |-> db, loaded |-> FALSE]>>)

EnvsFrame == UNCHANGED <<med, bank, travel, shop, rest, bball, movie, rail, orch, school>>

\* the database that the toolkit of the environment reads and writes
ToolsDb(e) == envs.stores[envs.made[e].db]

\* a caller loads a database of its own
LoadDb ==
  /\ Len(envs.stores) <= MaxEnvs
  /\ envs' = [envs EXCEPT !.stores = load(@)]
  /\ call' = [NoCall EXCEPT !.tool = "load"]
  /\ EnvsFrame

GetEnvironment ==
  \E db \in 0..Len(envs.stores), solo_mode \in BOOLEAN :
    /\ Len(envs.made) < MaxEnvs
    /\ Len(envs.stores) <= MaxEnvs
    /\ LET r == get_environment(envs.stores, db, solo_mode) IN
         /\ envs' = [stores |-> r.db, made |-> envs.made \o r.ret]
         /\ call' = Called("get_environment", "none", "", r)
    /\ EnvsFrame

\* a WRITE tool called through the toolkit of one environment
WriteThroughEnvironment ==
  \E e \in DOMAIN envs.made, pid \in RxIds, st \in {"active", "on-hold", "canceled"} :
    /\ LET r == update_prescription_status(ToolsDb(e), pid, st) IN
         /\ envs' = [envs EXCEPT !.stores[envs.made[e].db] = r.db]
         /\ call' = Called("update_prescription_status", "WRITE", pid, r) @@ [env |-> e]
    /\ EnvsFrame

InitEnvs ==
  /\ envs = [stores |-> <<>>, made |-> <<>>]
  /\ med = <<>> /\ bank = <<>> /\ travel = <<>> /\ shop = <<>> /\ rest = <<>>
  /\ bball = <<>> /\ movie = <<>> /\ rail = <<>> /\ orch = <<>> /\ school = <<>>
  /\ call = NoCall

NextEnvs ==
  \/ LoadDb
  \/ GetEnvironment
  \/ WriteThroughEnvironment

SpecEnvs == InitEnvs /\ [][NextEnvs]_vars

\* a WRITE through one environment leaves what the toolkit of the other reads
Isolated(e1, e2) ==
  (call'.tool = "update_prescription_status" /\ call'.env = e1) =>
    envs'.stores[envs'.made[e2].db] = ToolsDb(e2)

====
